---- MODULE Spec2Model ----
(***************************************************************************)
(* State-machine model of robotframework-async-keyword:                    *)
(*   AsyncLibrary (async_run / async_get / _wait_all / _close), the        *)
(*   Postpone journal, the per-task ScopedContext and the thread pool      *)
(*   that runs the keywords.                                               *)
(***************************************************************************)
EXTENDS Integers, Sequences, FiniteSets, TLC

(* ------------------------------ bounds --------------------------------- *)
\* number of async_run calls explored (Postpone._next / _last_thread_handle cap)
MaxTasks == 3
\* number of journal writes one keyword makes at most
MaxWrites == 1
\* longest explicit handle list passed to async_get
MaxArgLen == 2
\* number of async_get / _end_suite / _close calls explored
MaxCalls == 2
\* number of calls the main thread makes on the writer itself
MaxDirect == 1
\* tasks submitted and calls a keyword makes on the writer when the pool
\* threads are followed statement by statement
MaxStepTasks == 2
MaxStepWrites == 2
\* ScopedValue on its own: forks per value, objects on the heap, calls made
MaxForks == 2
MaxObjs == 5
MaxSvCalls == 5
\* SIGINT / SIGTERM sent to the process while async_run is under way
MaxSignals == 1

\* Python's None (Postpone.get() with no id active, handle=None, no task)
None == -1

\* threading.Lock() not held
Unlocked == "unlocked"

Callers == {"c1", "c2"}
\* the pool's threads, in the order in which an idle one takes the next work item
\* (the threads are interchangeable, so the first idle one stands for any)
WorkerOrder == << "w1", "w2" >>
Workers == { WorkerOrder[i] : i \in 1 .. Len(WorkerOrder) }
Threads == Callers \cup Workers
Tasks == 0 .. (MaxTasks - 1)
HandleIds == 0 .. (MaxTasks - 1)

VARIABLES
    hasExceptionGroup,   \* the runtime defines ExceptionGroup (Python >= 3.11)
    futures,             \* AsyncLibrary._futures: ordered dict, seq of [h, f]
    last_thread_handle,  \* AsyncLibrary._last_thread_handle
    lock,                \* AsyncLibrary._lock: the caller holding it, or Unlocked
    work_queue,          \* ThreadPoolExecutor work queue (FIFO of futures)
    shutdown,            \* ThreadPoolExecutor was shut down
    fstate,              \* Future._state per task
    fres,                \* Future result kind per task: none/result/exception
    postponed,           \* Postpone._postponed: id -> queue (NoQueue = no entry)
    post_next,           \* Postpone._next
    post_id,             \* Postpone._id (thread local)
    sink,                \* the xml writer: the calls applied to it, in order
    scope,               \* ScopedContext per task: forked / kills / activations
    scopeid,             \* ScopedValue._scopeid (thread local) of the bound values
    wtask, wpc, wres, wn,\* worker: current future, position, pending outcome, writes
    pc, loc,             \* caller: position and locals of the running call
    calls,               \* number of async_get / _end_suite / _close calls so far
    outcome,             \* caller: what its last call returned or raised
    handle_of,           \* history: the handle async_run returned for a task
    removals,            \* history: final removals of a handle from _futures
    raised,              \* history: times a task's error was raised to a caller
    wrote,               \* history: calls a task's keyword made on the writer
    sv,                  \* the ScopedValue objects: _scopes, _next, _scopeid; heap
    ctx,                 \* a ScopedContext: _forks, _logger
    sv_calls,            \* number of calls made on the scoped values so far
    sv_ret,              \* the last call on a scoped value and its outcome
    sig,                 \* SIGINT/SIGTERM on the main thread: mask, pending, saved masks
    svlock               \* ScopedValue._lock: the thread holding it, or Unlocked

mainVars == << hasExceptionGroup, futures, last_thread_handle, lock, work_queue,
               shutdown, fstate, fres, postponed, post_next, post_id, sink, scope,
               scopeid, wtask, wpc, wres, wn, pc, loc, calls, outcome, handle_of,
               removals, raised, wrote >>

svVars == << sv, ctx, sv_calls, sv_ret >>
fineVars == << sig, svlock >>
vars == << mainVars, svVars, fineVars >>
envVars == << hasExceptionGroup, svVars, fineVars >>

managerVars == << futures, last_thread_handle, lock >>
executorVars == << work_queue, shutdown, fstate, fres >>
postponeVars == << postponed, post_next, post_id, sink >>
scopeVars == << scope, scopeid >>
workerVars == << wtask, wpc, wres, wn >>
callerVars == << pc, loc, calls, outcome >>
historyVars == << handle_of, removals, raised, wrote >>

(* ------------------------------ sequences ------------------------------ *)
Range(s) == { s[i] : i \in 1 .. Len(s) }

SeqsUpTo(S, n) == UNION { [1 .. k -> S] : k \in 1 .. n }

Min(S) == CHOOSE x \in S : \A y \in S : x <= y

RECURSIVE Insert(_, _)
Insert(x, s) ==
    IF s = << >> THEN << x >>
    ELSE IF x <= Head(s) THEN << x >> \o s
    ELSE << Head(s) >> \o Insert(x, Tail(s))

\* list.sort() on a list of integers
SortKeepsOrder(s) == s

RECURSIVE Sort(_)
Sort(s) == IF s = << >> THEN << >> ELSE Insert(Head(s), Sort(Tail(s)))

RECURSIVE SelectSeqIdx(_, _, _)
SelectSeqIdx(s, i, keep) ==
    IF i > Len(s) THEN << >>
    ELSE (IF i \in keep THEN << s[i] >> ELSE << >>) \o SelectSeqIdx(s, i + 1, keep)

(* ------------------------------ dict (_futures) ------------------------ *)
Keys(d) == { d[i].h : i \in 1 .. Len(d) }

KeyList(d) == [ i \in 1 .. Len(d) |-> d[i].h ]

HasKey(d, k) == k \in Keys(d)

Lookup(d, k) == (CHOOSE i \in 1 .. Len(d) : d[i].h = k)

Get(d, k) == d[Lookup(d, k)].f

\* d[k] = v: a present key keeps its position, a new key goes last
DictSet(d, k, v) ==
    IF HasKey(d, k)
    THEN [ d EXCEPT ![Lookup(d, k)] = [h |-> k, f |-> v] ]
    ELSE Append(d, [h |-> k, f |-> v])

\* d.pop(k) of a present key
DictPop(d, k) == SelectSeq(d, LAMBDA e : e.h # k)

RECURSIVE DictPopAll(_, _)
DictKeepAll(d, ks) == d

DictPopAll(d, ks) ==
    IF ks = << >> THEN d ELSE DictPopAll(DictPop(d, Head(ks)), Tail(ks))

RECURSIVE DictUpdate(_, _)
DictUpdate(d, items) ==
    IF items = << >> THEN d
    ELSE DictUpdate(DictSet(d, Head(items).h, Head(items).f), Tail(items))

(* ------------------------------ futures -------------------------------- *)
\* concurrent.futures.wait(): what counts as done
DoneWhenRunning(t) == fstate[t] \in {"RUNNING", "FINISHED", "CANCELLED"}

Done(t) == fstate[t] \in {"FINISHED", "CANCELLED"}

(* ------------------------------ Postpone ------------------------------- *)
NoQueue == << << None, None >> >>

\* the call a keyword makes on the writer: k-th call of task t
Call(t, k) == << t, k >>

\* Postpone.postpone.inner: buffered while an id is active, else applied
PostponeAlwaysApply(th, call) ==
    /\ sink' = Append(sink, call)
    /\ postponed' = postponed

PostponeInner(th, call) ==
    IF post_id[th] = None
    THEN /\ sink' = Append(sink, call)
         /\ postponed' = postponed
    ELSE /\ postponed' = [ postponed EXCEPT ![post_id[th]] = Append(@, call) ]
         /\ sink' = sink

(* ------------------------------ ScopedContext -------------------------- *)
NewScope == [forked |-> FALSE, kills |-> 0, activations |-> 0]

\* ScopedContext.activate() raises when its forks were already killed
ActivateRaises(t) == scope[t].kills > 0

\* ScopedContext.kill() raises when its forks were already killed
KillRaises(t) == scope[t].kills > 0

\* ScopedContext.kill() on thread th
ScopeKillStaysActive(th, t) ==
    /\ scope' = [ scope EXCEPT ![t].kills = @ + 1 ]
    /\ scopeid' = scopeid

ScopeKill(th, t) ==
    /\ scope' = [ scope EXCEPT ![t].kills = @ + 1 ]
    /\ scopeid' = IF scopeid[th] = t THEN [ scopeid EXCEPT ![th] = None ]
                  ELSE scopeid

(* ------------------------------ ScopedValue ---------------------------- *)
\* _UNDEFINED; also: no such key in _scopes
Undefined == -2
\* kill(identifier=-1): any negative identifier stands for the current scope
Current == -3

\* the scoped values: an attribute of the context without forkvalue, and
\* logger_scope (LOGGER._started_keywords, forkvalue=0)
SVs == {"attr", "logger"}
\* ScopedContext._attributes: the paths of the bound values, in path order
Attributes == << "attr", "attr2" >>
AllSVs == SVs \cup Range(Attributes)
SVThreads == {"c1", "w1"}
ForkIds == 0 .. (MaxForks - 1)
ScopeIds == {None} \cup ForkIds
Objs == 0 .. (MaxObjs - 1)

\* objects: an int (immutable, no copy()), an opaque object (a field that
\* can be assigned, no copy()), a list (copy() is shallow: the copy holds the
\* same inner object)
IntObj(n) == [ kind |-> "int", field |-> n, inner |-> None ]
PlainObj(n) == [ kind |-> "obj", field |-> n, inner |-> None ]
ListObj(n, o) == [ kind |-> "list", field |-> n, inner |-> o ]

\* the int 0 (small ints are one object each)
ZeroObj == 0

\* ScopedValue._forkvalue, Undefined when the attribute is not set
ForkValue(v) == IF v = "logger" THEN ZeroObj ELSE Undefined

\* the scoped values after scope_parameter() has wrapped the attributes
InitSv ==
    [ scopes |-> [ v \in AllSVs |-> [ i \in ScopeIds |->
                     IF i # None THEN Undefined
                     ELSE IF v = "logger" THEN ZeroObj
                     ELSE IF v = "attr" THEN 2 ELSE 1 ] ],
      next |-> [ v \in AllSVs |-> 0 ],
      scopeid |-> [ v \in AllSVs |-> [ th \in SVThreads |-> None ] ],
      heap |-> [ o \in Objs |->
                     IF o = 1 THEN PlainObj(0)
                     ELSE IF o = 2 THEN ListObj(0, 1)
                     ELSE IntObj(0) ],
      nobj |-> 3 ]

\* ScopedValue.scope
SvScope(s, v, th) == s.scopeid[v][th]

\* identifier in self._scopes
SvHas(s, v, id) == s.scopes[v][id] # Undefined

\* hasattr(value, 'copy')
Copyable(s, o) == s.heap[o].kind = "list"

SvOk(s, value) == [ s |-> s, raised |-> "none", value |-> value ]
SvRaise(s, e) == [ s |-> s, raised |-> e, value |-> None ]

\* a new object on the heap
Alloc(s, obj) == [ s EXCEPT !.heap[s.nobj] = obj, !.nobj = @ + 1 ]

\* self._scopes[identifier] = value; self._next += 1; return identifier
SvStoreFork(s, v, value) ==
    SvOk([ s EXCEPT !.scopes[v][s.next[v]] = value, !.next[v] = @ + 1 ],
         s.next[v])

\* ScopedValue.fork
SvForkShare(s, v, th) ==
    IF ForkValue(v) # Undefined THEN SvStoreFork(s, v, ForkValue(v))
    ELSE IF ~SvHas(s, v, SvScope(s, v, th)) THEN SvRaise(s, "KeyError")
    ELSE SvStoreFork(s, v, s.scopes[v][SvScope(s, v, th)])

SvFork(s, v, th) ==
    LET cur == s.scopes[v][SvScope(s, v, th)] IN
    IF ForkValue(v) # Undefined THEN SvStoreFork(s, v, ForkValue(v))
    ELSE IF ~SvHas(s, v, SvScope(s, v, th)) THEN SvRaise(s, "KeyError")
    ELSE IF Copyable(s, cur)
    THEN SvStoreFork(Alloc(s, s.heap[cur]), v, s.nobj)
    ELSE SvStoreFork(s, v, cur)

\* ScopedValue.kill
SvKill(s, v, th, arg) ==
    IF arg = None THEN SvRaise(s, "RuntimeError")
    ELSE LET identifier == IF arg = Current THEN SvScope(s, v, th) ELSE arg IN
         IF ~SvHas(s, v, identifier) THEN SvRaise(s, "KeyError")
         ELSE SvOk([ s EXCEPT !.scopes[v][identifier] = Undefined,
                              !.scopeid[v][th] =
                                  IF @ = identifier THEN None ELSE @ ], None)

\* ScopedValue.activate
SvActivate(s, v, th, identifier) ==
    IF identifier = None THEN SvOk([ s EXCEPT !.scopeid[v][th] = None ], None)
    ELSE IF SvHas(s, v, identifier)
    THEN SvOk([ s EXCEPT !.scopeid[v][th] = identifier ], None)
    ELSE SvRaise(s, "RuntimeError")

\* ScopedValue.get
SvGet(s, v, th) ==
    IF SvHas(s, v, SvScope(s, v, th))
    THEN SvOk(s, s.scopes[v][SvScope(s, v, th)])
    ELSE SvRaise(s, "KeyError")

\* ScopedValue.set
SvSet(s, v, th, value) ==
    SvOk([ s EXCEPT !.scopes[v][SvScope(s, v, th)] = value ], None)

(* ------------------------------ ScopedContext (its forks) -------------- *)
NoContext == [ made |-> FALSE, forks |-> << >>, logger |-> None, kills |-> 0 ]

CtxResult(r, c) == [ s |-> r.s, raised |-> r.raised, value |-> None, ctx |-> c ]

\* ScopedContext.__init__: one fork per bound attribute, then the logger's
CtxInit(s, th) ==
    LET f == SvFork(s, "attr", th)
        g == SvFork(f.s, "logger", th)
    IN IF f.raised # "none" THEN CtxResult(f, NoContext)
       ELSE IF g.raised # "none" THEN CtxResult(g, NoContext)
       ELSE CtxResult(g, [ made |-> TRUE, forks |-> << f.value >>,
                           logger |-> g.value, kills |-> 0 ])

\* ScopedContext.activate
CtxActivate(s, c, th) ==
    LET a == IF c.forks = << >> THEN SvOk(s, None)
             ELSE SvActivate(s, "attr", th, c.forks[1])
    IN IF a.raised # "none" THEN CtxResult(a, c)
       ELSE CtxResult(SvActivate(a.s, "logger", th, c.logger), c)

\* ScopedContext.kill
CtxKill(s, c, th) ==
    LET k == IF c.forks = << >> \/ c.forks[1] = None THEN SvOk(s, None)
             ELSE SvKill(s, "attr", th, c.forks[1])
        d == [ c EXCEPT !.kills = @ + 1 ]
    IN IF k.raised # "none" THEN CtxResult(k, [ d EXCEPT !.forks = << >> ])
       ELSE CtxResult(SvKill(k.s, "logger", th, c.logger),
                      [ d EXCEPT !.forks = [ i \in 1 .. Len(c.forks) |-> None ] ])

(* ------------------------------ ScopedContext (several bindings) ------- *)
\* ScopedContext.__init__, its loop over reversed(tuple(enumerate(
\* self._attributes))) from index i down: self._forks.append(scope.fork());
\* got notes which value's fork returned which id
RECURSIVE CtxForks(_, _, _, _)
CtxForks(r, th, attrs, i) ==
    IF i = 0 \/ r.raised # "none" THEN r
    ELSE LET f == SvFork(r.s, attrs[i], th) IN
         CtxForks([ s |-> f.s, raised |-> f.raised,
                    forks |-> IF f.raised = "none" THEN Append(r.forks, f.value)
                              ELSE r.forks,
                    got |-> IF f.raised = "none"
                            THEN Append(r.got, [ v |-> attrs[i], id |-> f.value ])
                            ELSE r.got ],
                  th, attrs, i - 1)

\* ScopedContext.__init__ with the bindings attrs, then the logger's fork
CtxInitAll(s, th, attrs) ==
    LET a == CtxForks([ s |-> s, raised |-> "none", forks |-> << >>, got |-> << >> ],
                      th, attrs, Len(attrs))
        g == SvFork(a.s, "logger", th)
    IN IF a.raised # "none" THEN CtxResult(a, NoContext)
       ELSE IF g.raised # "none" THEN CtxResult(g, NoContext)
       ELSE CtxResult(g, [ made |-> TRUE, forks |-> a.forks, logger |-> g.value,
                           kills |-> 0, obtained |-> a.got, passed |-> << >> ])

\* ScopedContext.activate, its loop over zip(self._attributes, forks) from
\* position i on: scope.activate(context); passed notes which value was
\* given which id
RECURSIVE CtxActivations(_, _, _, _, _)
CtxActivations(r, th, attrs, forks, i) ==
    IF i > Min({Len(attrs), Len(forks)}) \/ r.raised # "none" THEN r
    ELSE LET a == SvActivate(r.s, attrs[i], th, forks[i]) IN
         CtxActivations([ s |-> a.s, raised |-> a.raised,
                          passed |-> Append(r.passed,
                                            [ v |-> attrs[i], id |-> forks[i] ]) ],
                        th, attrs, forks, i + 1)

CtxActivateAll(s, c, th, attrs) ==
    LET a == CtxActivations([ s |-> s, raised |-> "none", passed |-> << >> ],
                            th, attrs, c.forks, 1)
        d == [ c EXCEPT !.passed = a.passed ]
    IN IF a.raised # "none" THEN CtxResult(a, d)
       ELSE CtxResult(SvActivate(a.s, "logger", th, c.logger), d)

\* ScopedContext.kill, its loop over zip(self._attributes, forks) from
\* position i on: scope.kill(context) unless the id is None, then
\* self._forks.append(None)
RECURSIVE CtxKills(_, _, _, _, _)
CtxKills(r, th, attrs, forks, i) ==
    IF i > Min({Len(attrs), Len(forks)}) \/ r.raised # "none" THEN r
    ELSE LET k == IF forks[i] = None THEN SvOk(r.s, None)
                  ELSE SvKill(r.s, attrs[i], th, forks[i])
         IN CtxKills([ s |-> k.s, raised |-> k.raised,
                       passed |-> IF forks[i] = None THEN r.passed
                                  ELSE Append(r.passed,
                                              [ v |-> attrs[i], id |-> forks[i] ]),
                       forks |-> IF k.raised = "none" THEN Append(r.forks, None)
                                 ELSE r.forks ],
                     th, attrs, forks, i + 1)

CtxKillAll(s, c, th, attrs) ==
    LET k == CtxKills([ s |-> s, raised |-> "none", passed |-> << >>,
                        forks |-> << >> ], th, attrs, c.forks, 1)
        d == [ c EXCEPT !.kills = @ + 1, !.forks = k.forks, !.passed = k.passed ]
    IN IF k.raised # "none" THEN CtxResult(k, d)
       ELSE CtxResult(SvKill(k.s, "logger", th, c.logger), d)

NoCall == [ n |-> 0, th |-> "none", op |-> "none", v |-> "none", arg |-> None,
            raised |-> "none", value |-> None ]

(* ------------------------------ BlockSignals -------------------------- *)
\* the main thread's signal mask (the two signals blocked or not), a signal
\* kept pending by the mask, BlockSignals._current, signals sent so far
NoSignals == [ blocked |-> FALSE, pending |-> FALSE, current |-> << >>, sent |-> 0 ]

\* BlockSignals.__enter__: pthread_sigmask(SIG_BLOCK, ...) returns the old mask
BlockEnter(g) == [ g EXCEPT !.current = Append(@, g.blocked), !.blocked = TRUE ]

\* BlockSignals.__exit__: pthread_sigmask(SIG_SETMASK, self._current.pop())
BlockExit(g) ==
    [ g EXCEPT !.blocked = g.current[Len(g.current)],
               !.current = SubSeq(@, 1, Len(@) - 1) ]

(* ------------------------------ Init ----------------------------------- *)
NoLocals ==
    [ op |-> "none", all |-> FALSE, retlist |-> TRUE, timeout |-> FALSE,
      handles |-> << >>,
      futs |-> << >>, done |-> {}, excs |-> << >>, replay |-> << >>,
      items |-> << >>, cancelled |-> {}, closing |-> FALSE, future |-> None ]

NoOutcome ==
    [ op |-> "none", kind |-> "none", value |-> << >>, errors |-> << >>,
      grouped |-> FALSE, req |-> NoLocals ]

Init ==
    /\ hasExceptionGroup \in BOOLEAN
    /\ futures = << >>
    /\ last_thread_handle = 0
    /\ lock = Unlocked
    /\ work_queue = << >>
    /\ shutdown = FALSE
    /\ fstate = [ t \in Tasks |-> "NONE" ]
    /\ fres = [ t \in Tasks |-> "none" ]
    /\ postponed = [ t \in Tasks |-> NoQueue ]
    /\ post_next = 0
    /\ post_id = [ th \in Threads |-> None ]
    /\ sink = << >>
    /\ scope = [ t \in Tasks |-> NewScope ]
    /\ scopeid = [ th \in Threads |-> None ]
    /\ wtask = [ w \in Workers |-> None ]
    /\ wpc = [ w \in Workers |-> "idle" ]
    /\ wres = [ w \in Workers |-> "none" ]
    /\ wn = [ w \in Workers |-> 0 ]
    /\ pc = [ c \in Callers |-> "idle" ]
    /\ loc = [ c \in Callers |-> NoLocals ]
    /\ calls = 0
    /\ outcome = [ c \in Callers |-> NoOutcome ]
    /\ handle_of = [ t \in Tasks |-> None ]
    /\ removals = [ h \in HandleIds |-> 0 ]
    /\ raised = [ t \in Tasks |-> 0 ]
    /\ wrote = [ t \in Tasks |-> 0 ]
    /\ sv = InitSv
    /\ ctx = NoContext
    /\ sv_calls = 0
    /\ sv_ret = NoCall
    /\ sig = NoSignals
    /\ svlock = Unlocked

(* ------------------------------ workers -------------------------------- *)
\* _WorkItem.run: set_running_or_notify_cancel(); a cancelled future is skipped
FirstIdle ==
    WorkerOrder[Min({ i \in 1 .. Len(WorkerOrder) : wpc[WorkerOrder[i]] = "idle" })]

WorkerTake(w) ==
    /\ wpc[w] = "idle"
    /\ w = FirstIdle
    /\ work_queue # << >>
    /\ LET t == Head(work_queue) IN
        /\ work_queue' = Tail(work_queue)
        /\ IF fstate[t] = "CANCELLED"
           THEN UNCHANGED << fstate, wtask, wpc >>
           ELSE /\ fstate' = [ fstate EXCEPT ![t] = "RUNNING" ]
                /\ wtask' = [ wtask EXCEPT ![w] = t ]
                /\ wpc' = [ wpc EXCEPT ![w] = "postpone_enter" ]
    /\ UNCHANGED << envVars, managerVars, shutdown, fres, postponeVars,
                    scopeVars, wres, wn, callerVars, historyVars >>

\* _run: self._postpone(postpone_id) -> Postpone.activate
PostponeEnterNoId(w) ==
    /\ wpc[w] = "postpone_enter"
    /\ postponed' = [ postponed EXCEPT ![wtask[w]] = << >> ]
    /\ wpc' = [ wpc EXCEPT ![w] = "scope_enter" ]
    /\ UNCHANGED << envVars, managerVars, executorVars, post_next, post_id, sink,
                    scopeVars, wtask, wres, wn, callerVars, historyVars >>

PostponeEnter(w) ==
    /\ wpc[w] = "postpone_enter"
    /\ postponed' = [ postponed EXCEPT ![wtask[w]] = << >> ]
    /\ post_id' = [ post_id EXCEPT ![w] = wtask[w] ]
    /\ wpc' = [ wpc EXCEPT ![w] = "scope_enter" ]
    /\ UNCHANGED << envVars, managerVars, executorVars, post_next, sink,
                    scopeVars, wtask, wres, wn, callerVars, historyVars >>

\* _run: ScopedContext.__enter__ -> activate; ScopedValue.activate raises on a
\* fork that no longer exists, and then only Postpone.__exit__ runs
ScopeEnter(w) ==
    /\ wpc[w] = "scope_enter"
    /\ LET t == wtask[w] IN
        IF ActivateRaises(t)
        THEN /\ wres' = [ wres EXCEPT ![w] = "exception" ]
             /\ wpc' = [ wpc EXCEPT ![w] = "postpone_exit" ]
             /\ UNCHANGED scopeVars
        ELSE /\ scope' = [ scope EXCEPT ![t].activations = @ + 1 ]
             /\ scopeid' = [ scopeid EXCEPT ![w] = t ]
             /\ wpc' = [ wpc EXCEPT ![w] = "body" ]
             /\ UNCHANGED wres
    /\ UNCHANGED << envVars, managerVars, executorVars, postponeVars,
                    wtask, wn, callerVars, historyVars >>

\* the keyword calls writer.start/end/element (the patched, postponing ones)
KeywordWrite(w) ==
    /\ wpc[w] = "body"
    /\ wn[w] < MaxStepWrites
    /\ PostponeInner(w, Call(wtask[w], wn[w]))
    /\ wn' = [ wn EXCEPT ![w] = @ + 1 ]
    /\ wrote' = [ wrote EXCEPT ![wtask[w]] = @ + 1 ]
    /\ UNCHANGED << envVars, managerVars, executorVars, post_next,
                    post_id, scopeVars, wtask, wpc, wres, callerVars,
                    handle_of, removals, raised >>

\* func(*args, **kwargs) returns or raises
KeywordEnd(w, res) ==
    /\ wpc[w] = "body"
    /\ wres' = [ wres EXCEPT ![w] = res ]
    /\ wpc' = [ wpc EXCEPT ![w] = "scope_exit" ]
    /\ UNCHANGED << envVars, managerVars, executorVars, postponeVars,
                    scopeVars, wtask, wn, callerVars, historyVars >>

\* ScopedContext.__exit__: kill(); an error in kill replaces the outcome
ScopeExitBody(w) ==
    /\ wpc[w] = "scope_exit"
    /\ IF KillRaises(wtask[w])
       THEN /\ wres' = [ wres EXCEPT ![w] = "exception" ]
            /\ UNCHANGED scopeVars
       ELSE /\ ScopeKill(w, wtask[w])
            /\ UNCHANGED wres
    /\ wpc' = [ wpc EXCEPT ![w] = "postpone_exit" ]
    /\ UNCHANGED << managerVars, executorVars, postponeVars,
                    wtask, wn, callerVars, historyVars >>

\* the same with the locks of the scoped values taken and released in the step
ScopeExit(w) == ScopeExitBody(w) /\ UNCHANGED envVars

\* Postpone.__exit__ -> deactivate
PostponeExitKeepsId(w) ==
    /\ wpc[w] = "postpone_exit"
    /\ wpc' = [ wpc EXCEPT ![w] = "set_result" ]
    /\ UNCHANGED << envVars, managerVars, executorVars, postponeVars,
                    scopeVars, wtask, wres, wn, callerVars, historyVars >>

PostponeExit(w) ==
    /\ wpc[w] = "postpone_exit"
    /\ post_id' = [ post_id EXCEPT ![w] = None ]
    /\ wpc' = [ wpc EXCEPT ![w] = "set_result" ]
    /\ UNCHANGED << envVars, managerVars, executorVars, postponed,
                    post_next, sink, scopeVars, wtask, wres, wn, callerVars,
                    historyVars >>

\* _WorkItem.run: future.set_result / future.set_exception
SetResult(w) ==
    /\ wpc[w] = "set_result"
    /\ fstate' = [ fstate EXCEPT ![wtask[w]] = "FINISHED" ]
    /\ fres' = [ fres EXCEPT ![wtask[w]] = wres[w] ]
    /\ wtask' = [ wtask EXCEPT ![w] = None ]
    /\ wres' = [ wres EXCEPT ![w] = "none" ]
    /\ wn' = [ wn EXCEPT ![w] = 0 ]
    /\ wpc' = [ wpc EXCEPT ![w] = "idle" ]
    /\ UNCHANGED << envVars, managerVars, work_queue, shutdown,
                    postponeVars, scopeVars, callerVars, historyVars >>

\* _run and set_result / set_exception in one step: between taking the work
\* item and completing the future the worker touches only its thread locals,
\* the task's own queue and the task's own forks.  The keyword makes n calls
\* on the writer and returns or raises.
WorkerRun(w, n, res) ==
    /\ wpc[w] = "postpone_enter"
    /\ LET t == wtask[w]
           calls_made == [ k \in 1 .. n |-> Call(t, k - 1) ]
       IN
        IF ActivateRaises(t)
        THEN /\ postponed' = [ postponed EXCEPT ![t] = << >> ]
             /\ fres' = [ fres EXCEPT ![t] = "exception" ]
             /\ UNCHANGED << scope, wrote >>
        ELSE /\ postponed' = [ postponed EXCEPT ![t] = calls_made ]
             /\ wrote' = [ wrote EXCEPT ![t] = n ]
             /\ scope' = [ scope EXCEPT ![t].activations = @ + 1,
                                        ![t].kills = @ + 1 ]
             /\ fres' = [ fres EXCEPT ![t] = res ]
    /\ fstate' = [ fstate EXCEPT ![wtask[w]] = "FINISHED" ]
    /\ wtask' = [ wtask EXCEPT ![w] = None ]
    /\ wpc' = [ wpc EXCEPT ![w] = "idle" ]
    /\ UNCHANGED << envVars, managerVars, work_queue, shutdown,
                    post_next, post_id, sink, scopeid, wres, wn, callerVars,
                    handle_of, removals, raised >>

\* a pool thread, one statement of _run at a time
WorkerSteps(w) ==
    \/ WorkerTake(w)
    \/ PostponeEnter(w)
    \/ ScopeEnter(w)
    \/ KeywordWrite(w)
    \/ \E res \in {"result", "exception"} : KeywordEnd(w, res)
    \/ ScopeExit(w)
    \/ PostponeExit(w)
    \/ SetResult(w)

\* a pool thread, one work item at a time
Worker(w) ==
    \/ WorkerTake(w)
    \/ \E n \in 0 .. MaxWrites, res \in {"result", "exception"} : WorkerRun(w, n, res)

(* ------------------------------ errors --------------------------------- *)
Error(kind, task) == [kind |-> kind, task |-> task, n |-> 0, of |-> 0]

\* the exception a failed keyword left on future t
TaskError(t) == Error("task", t)

\* TimeoutError(f'{len(result.not_done)} (of {len(futures)}) futures unfinished')
TimeoutError(n, of) == [kind |-> "TimeoutError", task |-> None, n |-> n, of |-> of]

Returned(op, value, req) ==
    [ op |-> op, kind |-> "return", value |-> value, errors |-> << >>,
      grouped |-> FALSE, req |-> req ]

Raised(op, errors, grouped, req) ==
    [ op |-> op, kind |-> "raise", value |-> << >>, errors |-> errors,
      grouped |-> grouped, req |-> req ]

(* ------------------------------ async_run ------------------------------ *)
\* self._last_thread_handle += 1
NextHandleStuck(last) == last

NextHandle(last) == last + 1

\* async_run up to executor.submit: ScopedContext(), Postpone.fork(), submit
AsyncRunSchedule(c) ==
    /\ pc[c] = "idle"
    /\ post_next < MaxTasks
    /\ LET t == post_next IN
        /\ scope' = [ scope EXCEPT ![t].forked = TRUE ]
        /\ post_next' = post_next + 1
        /\ IF shutdown
           THEN \* cannot schedule new futures after shutdown
                /\ outcome' = [ outcome EXCEPT ![c] =
                       Raised("async_run", << Error("RuntimeError", None) >>,
                              FALSE, NoLocals) ]
                /\ pc' = [ pc EXCEPT ![c] = "done" ]
                /\ UNCHANGED << fstate, work_queue, loc >>
           ELSE /\ fstate' = [ fstate EXCEPT ![t] = "PENDING" ]
                /\ work_queue' = Append(work_queue, t)
                /\ pc' = [ pc EXCEPT ![c] = "register" ]
                /\ loc' = [ loc EXCEPT ![c] =
                       [ NoLocals EXCEPT !.op = "async_run", !.future = t ] ]
                /\ UNCHANGED outcome
    /\ UNCHANGED << managerVars, shutdown, fres, postponed,
                    post_id, sink, scopeid, workerVars, calls, historyVars >>

\* the same with the with BlockSignals() block entered and left in the step
AsyncRunSubmit(c) == AsyncRunSchedule(c) /\ UNCHANGED envVars

\* async_run: with self._lock: allocate the handle, store the future
AsyncRunRegister(c) ==
    /\ pc[c] = "register"
    /\ lock = Unlocked
    /\ LET handle == last_thread_handle
           t == loc[c].future IN
        /\ last_thread_handle' = NextHandle(last_thread_handle)
        /\ futures' = DictSet(futures, handle, t)
        /\ handle_of' = [ handle_of EXCEPT ![t] = handle ]
        /\ outcome' = [ outcome EXCEPT ![c] =
               Returned("async_run", << handle >>, loc[c]) ]
    /\ pc' = [ pc EXCEPT ![c] = "done" ]
    /\ loc' = [ loc EXCEPT ![c] = NoLocals ]
    /\ UNCHANGED << envVars, lock, executorVars, postponeVars,
                    scopeVars, workerVars, calls, removals, raised, wrote >>

(* ------------------------------ _parse_handle -------------------------- *)
\* the handle argument of async_get: None, one handle, or a sequence
HandleArgs ==
    { [kind |-> "none", hs |-> << >>] }
    \cup { [kind |-> "single", hs |-> << h >>] : h \in HandleIds }
    \cup { [kind |-> "list", hs |-> hs] : hs \in SeqsUpTo(HandleIds, MaxArgLen) }

\* handles = sorted(self._futures.keys()) / list(handle) / [handle]
HandleList(arg, d) == IF arg.kind = "none" THEN Sort(KeyList(d)) ELSE arg.hs

\* first loop of _parse_handle: the positions at which it raises
IsDup(handles, i) == \E j \in 1 .. (i - 1) : handles[j] = handles[i]

BadPositions(handles, d) ==
    { i \in 1 .. Len(handles) : IsDup(handles, i) \/ ~HasKey(d, handles[i]) }

\* the one-pass variant pops each handle as it is looked up
ParseHandleOnePass(arg, d) ==
    LET handles == HandleList(arg, d)
        bad == BadPositions(handles, d)
        upto == IF bad = {} THEN Len(handles) ELSE Min(bad) - 1
    IN [ error |-> IF bad = {} THEN "none"
                   ELSE IF IsDup(handles, Min(bad)) THEN "RuntimeError"
                   ELSE "KeyError",
         retlist |-> arg.kind # "single",
         handles |-> handles,
         futs |-> IF bad = {} THEN [ i \in 1 .. Len(handles) |-> Get(d, handles[i]) ]
                  ELSE << >>,
         table |-> DictPopAll(d, SubSeq(handles, 1, upto)) ]

\* the lenient variant leaves out the handles it does not find
ParseHandleSkipUnknown(arg, d) ==
    LET handles == SelectSeq(HandleList(arg, d), LAMBDA h : HasKey(d, h))
        bad == BadPositions(handles, d)
    IN [ error |-> IF bad = {} THEN "none" ELSE "RuntimeError",
         retlist |-> arg.kind # "single",
         handles |-> handles,
         futs |-> IF bad = {} THEN [ i \in 1 .. Len(handles) |-> Get(d, handles[i]) ]
                  ELSE << >>,
         table |-> IF bad = {} THEN DictPopAll(d, handles) ELSE d ]

\* _parse_handle under self._lock: look every handle up, then pop them all
ParseHandle(arg, d) ==
    LET handles == HandleList(arg, d)
        bad == BadPositions(handles, d)
    IN [ error |-> IF bad = {} THEN "none"
                   ELSE IF IsDup(handles, Min(bad)) THEN "RuntimeError"
                   ELSE "KeyError",
         retlist |-> arg.kind # "single",
         handles |-> handles,
         futs |-> IF bad = {} THEN [ i \in 1 .. Len(handles) |-> Get(d, handles[i]) ]
                  ELSE << >>,
         table |-> IF bad = {} THEN DictPopAll(d, handles) ELSE d ]

(* ------------------------------ async_get ------------------------------ *)
Positions(l) == 1 .. Len(l.handles)

\* result.done / result.not_done as positions of handles
DonePositions(l) == { i \in Positions(l) : Done(l.futs[i]) }

\* exceptions = [e for e in (futures[h].exception() ... in result.done) if e]
Exceptions(handles, futs, done) ==
    LET failed == { i \in done : fres[futs[i]] = "exception" }
        picked == SelectSeqIdx(futs, 1, failed)
    IN [ i \in 1 .. Len(picked) |-> TaskError(picked[i]) ]

\* {k: v for k, v in futures.items() if v in result.not_done}
NotDoneItemsAll(handles, futs, done) ==
    [ i \in 1 .. Len(handles) |-> [h |-> handles[i], f |-> futs[i]] ]

NotDoneItems(handles, futs, done) ==
    LET hs == SelectSeqIdx(handles, 1, (1 .. Len(handles)) \ done)
        fs == SelectSeqIdx(futs, 1, (1 .. Len(handles)) \ done)
    IN [ i \in 1 .. Len(hs) |-> [h |-> hs[i], f |-> fs[i]] ]

\* the postpone ids replayed: for item in handles: if future in result.done
ReplayList(handles, futs, done) == SelectSeqIdx(futs, 1, done)

\* raise ExceptionGroup(...) / raise exceptions[-1]
RaiseLastOnly(excs, eg) ==
    [ errors |-> << excs[Len(excs)] >>, grouped |-> FALSE ]

RaiseOf(excs, eg) ==
    IF Len(excs) > 1 /\ eg
    THEN [ errors |-> excs, grouped |-> TRUE ]
    ELSE [ errors |-> << excs[Len(excs)] >>, grouped |-> FALSE ]

\* ret = [futures[h].result() for h in handles]; the result of task t is t
Results(handles, futs) == [ i \in 1 .. Len(futs) |-> futs[i] ]

\* return ret / return ret[-1]
ReturnValue(retlist, ret) == IF retlist THEN ret ELSE << ret[Len(ret)] >>

CountTaskErrors(errors, t) ==
    Cardinality({ i \in 1 .. Len(errors) :
                    errors[i].kind = "task" /\ errors[i].task = t })

\* async_get: retlist, handles, futures = self._parse_handle(handle)
AsyncGetParse(c, arg, timeout) ==
    /\ pc[c] = "idle"
    /\ calls < MaxCalls
    /\ calls' = calls + 1
    /\ lock = Unlocked
    /\ LET p == ParseHandle(arg, futures)
           l == [ NoLocals EXCEPT !.op = "async_get", !.all = (arg.kind = "none"),
                                  !.timeout = timeout, !.retlist = p.retlist,
                                  !.handles = p.handles, !.futs = p.futs ]
       IN
        /\ futures' = p.table
        /\ IF p.error # "none"
           THEN /\ outcome' = [ outcome EXCEPT ![c] =
                       Raised("async_get", << Error(p.error, None) >>, FALSE, NoLocals) ]
                /\ pc' = [ pc EXCEPT ![c] = "done" ]
                /\ UNCHANGED loc
           ELSE /\ pc' = [ pc EXCEPT ![c] = "wait" ]
                /\ loc' = [ loc EXCEPT ![c] = l ]
                /\ UNCHANGED outcome
    /\ UNCHANGED << envVars, last_thread_handle, lock, executorVars,
                    postponeVars, scopeVars, workerVars, historyVars >>

\* async_get: result = wait(futures.values(), timeout); exceptions = [...]
\* (a cancelled future makes future.exception() raise CancelledError)
AsyncGetWait(c) ==
    /\ pc[c] = "wait"
    /\ LET l == loc[c]
           done == DonePositions(l)
       IN
        /\ l.timeout \/ done = Positions(l)
        /\ IF \E i \in done : fstate[l.futs[i]] = "CANCELLED"
           THEN /\ outcome' = [ outcome EXCEPT ![c] =
                       Raised("async_get", << Error("CancelledError", None) >>,
                              FALSE, [ l EXCEPT !.done = done ]) ]
                /\ pc' = [ pc EXCEPT ![c] = "done" ]
                /\ loc' = [ loc EXCEPT ![c] = NoLocals ]
                /\ removals' = [ h \in HandleIds |->
                       IF h \in Range(l.handles) THEN removals[h] + 1
                       ELSE removals[h] ]
           ELSE /\ loc' = [ loc EXCEPT ![c] =
                       [ l EXCEPT !.done = done,
                                  !.excs = Exceptions(l.handles, l.futs, done),
                                  !.replay = ReplayList(l.handles, l.futs, done) ] ]
                /\ pc' = [ pc EXCEPT ![c] =
                       IF done = Positions(l) THEN "replay" ELSE "reinsert" ]
                /\ removals' = [ h \in HandleIds |->
                       IF \E i \in done : l.handles[i] = h THEN removals[h] + 1
                       ELSE removals[h] ]
                /\ UNCHANGED outcome
    /\ UNCHANGED << envVars, calls, managerVars, executorVars, postponeVars,
                    scopeVars, workerVars, handle_of, raised, wrote >>

\* async_get: if result.not_done: with self._lock: self._futures.update(...)
AsyncGetReinsert(c) ==
    /\ pc[c] = "reinsert"
    /\ lock = Unlocked
    /\ LET l == loc[c]
           items == NotDoneItems(l.handles, l.futs, l.done)
       IN
        /\ futures' = DictUpdate(futures, items)
        /\ loc' = [ loc EXCEPT ![c].excs =
               Append(@, TimeoutError(Len(items), Len(l.handles))) ]
    /\ pc' = [ pc EXCEPT ![c] = "replay" ]
    /\ UNCHANGED << envVars, calls, last_thread_handle, lock, executorVars,
                    postponeVars, scopeVars, workerVars, outcome, historyVars >>

\* list.pop(0): the element taken and the list that is left
PopLast(q) == [ call |-> q[Len(q)], rest |-> SubSeq(q, 1, Len(q) - 1) ]

Pop0(q) == [ call |-> Head(q), rest |-> Tail(q) ]

\* Postpone.replay, one turn of its loop: pop(0) and call, or del and break;
\* a missing queue is a KeyError that ends the caller's operation
Replay(c) ==
    /\ pc[c] \in {"replay", "wa_replay"}
    /\ loc[c].replay # << >>
    /\ LET id == Head(loc[c].replay) IN
        IF postponed[id] = NoQueue
        THEN /\ outcome' = [ outcome EXCEPT ![c] =
                    Raised(loc[c].op, << Error("KeyError", None) >>, FALSE, loc[c]) ]
             /\ pc' = [ pc EXCEPT ![c] = "done" ]
             /\ loc' = [ loc EXCEPT ![c] = NoLocals ]
             /\ UNCHANGED << postponed, sink >>
        ELSE IF postponed[id] = << >>
        THEN /\ postponed' = [ postponed EXCEPT ![id] = NoQueue ]
             /\ loc' = [ loc EXCEPT ![c].replay = Tail(@) ]
             /\ UNCHANGED << sink, pc, outcome >>
        ELSE /\ postponed' = [ postponed EXCEPT ![id] = Pop0(@).rest ]
             /\ sink' = Append(sink, Pop0(postponed[id]).call)
             /\ UNCHANGED << pc, loc, outcome >>
    /\ UNCHANGED << envVars, calls, managerVars, executorVars, post_next,
                    post_id, scopeVars, workerVars, historyVars >>

\* async_get: raise the collected exceptions, or return the results
AsyncGetFinish(c) ==
    /\ pc[c] = "replay"
    /\ loc[c].replay = << >>
    /\ LET l == loc[c] IN
        IF l.excs # << >>
        THEN LET r == RaiseOf(l.excs, hasExceptionGroup) IN
             /\ outcome' = [ outcome EXCEPT ![c] =
                    Raised("async_get", r.errors, r.grouped, l) ]
             /\ raised' = [ t \in Tasks |->
                    raised[t] + CountTaskErrors(r.errors, t) ]
        ELSE /\ outcome' = [ outcome EXCEPT ![c] =
                    Returned("async_get",
                             ReturnValue(l.retlist, Results(l.handles, l.futs)), l) ]
             /\ UNCHANGED raised
    /\ pc' = [ pc EXCEPT ![c] = "done" ]
    /\ loc' = [ loc EXCEPT ![c] = NoLocals ]
    /\ UNCHANGED << envVars, calls, managerVars, executorVars, postponeVars,
                    scopeVars, workerVars, handle_of, removals, wrote >>

(* ------------------------------ _wait_all / _close --------------------- *)
\* Future.cancel(): False when running or finished, True otherwise
CancelAlways(t) == TRUE

Cancel(t) == fstate[t] \notin {"RUNNING", "FINISHED"}

\* futures[handle] of the local dict of _wait_all / async_get
FutOf(handles, futs, h) == futs[CHOOSE i \in 1 .. Len(handles) : handles[i] = h]

\* wait(futures.values()) of _wait_all returns
WaitAllReadyAtOnce(l) == TRUE

WaitAllReady(l) == \A i \in 1 .. Len(l.futs) : Done(l.futs[i])

\* _wait_all: with self._lock: for handle, future in self._futures.items()
WaitAllBegin(c, closing) ==
    /\ pc[c] = "idle"
    /\ calls < MaxCalls
    /\ calls' = calls + 1
    /\ lock = Unlocked
    /\ lock' = c
    /\ pc' = [ pc EXCEPT ![c] = "cancel" ]
    /\ loc' = [ loc EXCEPT ![c] =
           [ NoLocals EXCEPT !.op = IF closing THEN "close" ELSE "wait_all",
                             !.closing = closing, !.items = futures ] ]
    /\ UNCHANGED << envVars, outcome, futures, last_thread_handle, executorVars,
                    postponeVars, scopeVars, workerVars, historyVars >>

\* _wait_all: one turn of the loop: cancel and kill the scope, or keep to wait;
\* an error in kill leaves the with block (the lock) and _wait_all
WaitAllCancelBody(c) ==
    /\ pc[c] = "cancel"
    /\ loc[c].items # << >>
    /\ LET e == Head(loc[c].items)
           l == loc[c]
       IN
        IF Cancel(e.f)
        THEN /\ fstate' = [ fstate EXCEPT ![e.f] = "CANCELLED" ]
             /\ IF KillRaises(e.f)
                THEN /\ outcome' = [ outcome EXCEPT ![c] =
                            Raised(l.op, << Error("KeyError", None) >>, FALSE, l) ]
                     /\ pc' = [ pc EXCEPT ![c] = "done" ]
                     /\ loc' = [ loc EXCEPT ![c] = NoLocals ]
                     /\ lock' = Unlocked
                     /\ UNCHANGED scopeVars
                ELSE /\ ScopeKill(c, e.f)
                     /\ loc' = [ loc EXCEPT ![c] =
                            [ l EXCEPT !.items = Tail(@),
                                       !.cancelled = @ \cup {e.h} ] ]
                     /\ UNCHANGED << pc, outcome, lock >>
        ELSE /\ loc' = [ loc EXCEPT ![c] =
                    [ l EXCEPT !.items = Tail(@),
                               !.handles = Append(@, e.h),
                               !.futs = Append(@, e.f) ] ]
             /\ UNCHANGED << fstate, scopeVars, pc, outcome, lock >>
    /\ UNCHANGED << calls, futures, last_thread_handle, work_queue,
                    shutdown, fres, postponeVars, workerVars, historyVars >>

\* the same with the locks of the scoped values taken and released in the step
WaitAllCancel(c) == WaitAllCancelBody(c) /\ UNCHANGED envVars

\* self._futures.clear()
ClearNothing(d) == d

Clear(d) == << >>

\* _wait_all: self._futures.clear(), the lock is released
WaitAllClear(c) ==
    /\ pc[c] = "cancel"
    /\ loc[c].items = << >>
    /\ futures' = Clear(futures)
    /\ lock' = Unlocked
    /\ removals' = [ h \in HandleIds |->
           IF HasKey(futures, h) THEN removals[h] + 1 ELSE removals[h] ]
    /\ pc' = [ pc EXCEPT ![c] = "wa_wait" ]
    /\ UNCHANGED << envVars, calls, last_thread_handle, executorVars,
                    postponeVars, scopeVars, workerVars, loc, outcome,
                    handle_of, raised, wrote >>

\* _wait_all: wait(futures.values()); handles.sort()
WaitAllWait(c) ==
    /\ pc[c] = "wa_wait"
    /\ WaitAllReady(loc[c])
    /\ LET l == loc[c]
           sorted == Sort(l.handles)
       IN loc' = [ loc EXCEPT ![c] =
              [ l EXCEPT !.done = 1 .. Len(l.handles),
                         !.replay = [ i \in 1 .. Len(sorted) |->
                                        FutOf(l.handles, l.futs, sorted[i]) ] ] ]
    /\ pc' = [ pc EXCEPT ![c] = "wa_replay" ]
    /\ UNCHANGED << envVars, calls, managerVars, executorVars, postponeVars,
                    scopeVars, workerVars, outcome, historyVars >>

\* _wait_all returns; _end_suite is done, _close goes on to executor.shutdown()
WaitAllFinish(c) ==
    /\ pc[c] = "wa_replay"
    /\ loc[c].replay = << >>
    /\ IF loc[c].closing
       THEN /\ shutdown' = TRUE
            /\ pc' = [ pc EXCEPT ![c] = "join" ]
            /\ UNCHANGED << loc, outcome >>
       ELSE /\ outcome' = [ outcome EXCEPT ![c] =
                   Returned("wait_all", << >>, loc[c]) ]
            /\ pc' = [ pc EXCEPT ![c] = "done" ]
            /\ loc' = [ loc EXCEPT ![c] = NoLocals ]
            /\ UNCHANGED shutdown
    /\ UNCHANGED << envVars, calls, managerVars, work_queue, fstate, fres,
                    postponeVars, scopeVars, workerVars, historyVars >>

\* _close: executor.shutdown() has joined the workers; self._postpone.close()
CloseJoin(c) ==
    /\ pc[c] = "join"
    /\ work_queue = << >>
    /\ \A w \in Workers : wpc[w] = "idle"
    /\ outcome' = [ outcome EXCEPT ![c] = Returned("close", << >>, loc[c]) ]
    /\ pc' = [ pc EXCEPT ![c] = "done" ]
    /\ loc' = [ loc EXCEPT ![c] = NoLocals ]
    /\ UNCHANGED << envVars, calls, managerVars, executorVars, postponeVars,
                    scopeVars, workerVars, historyVars >>

\* the caller takes the value returned, or handles the exception raised
Return(c) ==
    /\ pc[c] = "done"
    /\ pc' = [ pc EXCEPT ![c] = "idle" ]
    /\ outcome' = [ outcome EXCEPT ![c] = NoOutcome ]
    /\ UNCHANGED << envVars, managerVars, executorVars, postponeVars,
                    scopeVars, workerVars, loc, calls, historyVars >>

(* ------------------------------ specification -------------------------- *)
Caller(c) ==
    \/ AsyncRunSubmit(c)
    \/ AsyncRunRegister(c)
    \/ \E arg \in HandleArgs, timeout \in BOOLEAN : AsyncGetParse(c, arg, timeout)
    \/ AsyncGetWait(c)
    \/ AsyncGetReinsert(c)
    \/ Replay(c)
    \/ AsyncGetFinish(c)
    \/ \E closing \in BOOLEAN : WaitAllBegin(c, closing)
    \/ WaitAllCancel(c)
    \/ WaitAllClear(c)
    \/ WaitAllWait(c)
    \/ WaitAllFinish(c)
    \/ CloseJoin(c)
    \/ Return(c)

\* the test run's main thread calls the keywords one after the other
Next ==
    \/ Caller("c1")
    \/ \E w \in Workers : Worker(w)

\* a second thread calls async_run while the main thread calls the keywords
Submitter(c) ==
    \/ AsyncRunSubmit(c)
    \/ AsyncRunRegister(c)
    \/ Return(c)

\* the keywords of this scenario write nothing and succeed
QuietWorker(w) ==
    \/ WorkerTake(w)
    \/ WorkerRun(w, 0, "result")

NextConc ==
    \/ Caller("c1")
    \/ Submitter("c2")
    \/ \E w \in Workers : QuietWorker(w)

\* the main thread itself calls the writer (no id is active on it)
DirectWrite(c) ==
    /\ pc[c] = "idle"
    /\ Cardinality({ i \in 1 .. Len(sink) : sink[i][1] = None }) < MaxDirect
    /\ PostponeInner(c, Call(None, 0))
    /\ UNCHANGED << envVars, managerVars, executorVars, post_next,
                    post_id, scopeVars, workerVars, callerVars, historyVars >>

\* the keywords as the main thread calls them in the step-wise scenario:
\* async_get always without a handle
StepCaller(c) ==
    \/ post_next < MaxStepTasks /\ AsyncRunSubmit(c)
    \/ AsyncRunRegister(c)
    \/ \E timeout \in BOOLEAN :
           AsyncGetParse(c, [kind |-> "none", hs |-> << >>], timeout)
    \/ AsyncGetWait(c)
    \/ AsyncGetReinsert(c)
    \/ Replay(c)
    \/ AsyncGetFinish(c)
    \/ \E closing \in BOOLEAN : WaitAllBegin(c, closing)
    \/ WaitAllCancel(c)
    \/ WaitAllClear(c)
    \/ WaitAllWait(c)
    \/ WaitAllFinish(c)
    \/ CloseJoin(c)
    \/ Return(c)

\* the step-wise runs are taken on an interpreter that has ExceptionGroup
InitSteps == Init /\ hasExceptionGroup

\* the main thread calls the keywords; the pool threads run _run statement
\* by statement
NextSteps ==
    \/ StepCaller("c1")
    \/ DirectWrite("c1")
    \/ \E w \in Workers : WorkerSteps(w)

(* ------------------------------ calls on the scoped values ------------ *)
\* thread th makes the call op(arg) on v; r is what the call does
SvCall(th, op, v, arg, r) ==
    /\ sv_calls < MaxSvCalls
    /\ sv' = r.s
    /\ sv_calls' = sv_calls + 1
    /\ sv_ret' = [ n |-> sv_calls + 1, th |-> th, op |-> op, v |-> v,
                   arg |-> arg, raised |-> r.raised, value |-> r.value ]
    /\ UNCHANGED << mainVars, fineVars >>

DoFork(th, v) ==
    /\ sv.next[v] < MaxForks
    /\ sv.nobj < MaxObjs
    /\ SvCall(th, "fork", v, None, SvFork(sv, v, th))
    /\ UNCHANGED ctx

DoKill(th, v, arg) ==
    /\ SvCall(th, "kill", v, arg, SvKill(sv, v, th, arg))
    /\ UNCHANGED ctx

DoActivate(th, v, identifier) ==
    /\ SvCall(th, "activate", v, identifier, SvActivate(sv, v, th, identifier))
    /\ UNCHANGED ctx

DoGet(th, v) ==
    /\ SvCall(th, "get", v, None, SvGet(sv, v, th))
    /\ UNCHANGED ctx

\* set(value) with a new object as value
DoSet(th, v, obj) ==
    /\ sv.nobj < MaxObjs
    /\ SvCall(th, "set", v, sv.nobj, SvSet(Alloc(sv, obj), v, th, sv.nobj))
    /\ UNCHANGED ctx

\* get() and then a change of the object in place: of the object itself,
\* or of the object it holds
DoMutate(th, v, deep) ==
    LET g == SvGet(sv, v, th)
        o == IF deep THEN sv.heap[g.value].inner ELSE g.value
    IN /\ g.raised = "none"
       /\ sv.heap[g.value].kind # "int"
       /\ deep => sv.heap[g.value].inner # None
       /\ SvCall(th, IF deep THEN "mutate_inner" ELSE "mutate", v, g.value,
                 SvOk([ sv EXCEPT !.heap[o].field = 1 - @ ], g.value))
       /\ UNCHANGED ctx

DoCtxInit(th) ==
    /\ ~ctx.made
    /\ \A v \in SVs : sv.next[v] < MaxForks
    /\ sv.nobj < MaxObjs
    /\ LET r == CtxInit(sv, th) IN
        /\ SvCall(th, "ctx_init", "all", None, r)
        /\ ctx' = r.ctx

DoCtxActivate(th) ==
    /\ ctx.made
    /\ LET r == CtxActivate(sv, ctx, th) IN
        /\ SvCall(th, "ctx_activate", "all", None, r)
        /\ ctx' = r.ctx

DoCtxKill(th) ==
    /\ ctx.made
    /\ LET r == CtxKill(sv, ctx, th) IN
        /\ SvCall(th, "ctx_kill", "all", None, r)
        /\ ctx' = r.ctx

NextSV ==
    \E th \in SVThreads :
        \/ \E v \in SVs :
            \/ DoFork(th, v)
            \/ \E arg \in {None, Current} \cup ForkIds : DoKill(th, v, arg)
            \/ \E identifier \in ScopeIds : DoActivate(th, v, identifier)
            \/ DoGet(th, v)
            \/ \E obj \in {IntObj(1), PlainObj(0), ListObj(0, None)} : DoSet(th, v, obj)
            \/ \E deep \in BOOLEAN : DoMutate(th, v, deep)
        \/ DoCtxInit(th)
        \/ DoCtxActivate(th)
        \/ DoCtxKill(th)

(* ------------------------------ a context with two bindings ------------ *)
DoCtxInitAll(th) ==
    /\ ~ctx.made
    /\ \A v \in AllSVs : sv.next[v] < MaxForks
    /\ sv.nobj < MaxObjs
    /\ LET r == CtxInitAll(sv, th, Attributes) IN
        /\ SvCall(th, "ctx_init", "all", None, r)
        /\ ctx' = r.ctx

DoCtxActivateAll(th) ==
    /\ ctx.made
    /\ LET r == CtxActivateAll(sv, ctx, th, Attributes) IN
        /\ SvCall(th, "ctx_activate", "all", None, r)
        /\ ctx' = r.ctx

DoCtxKillAll(th) ==
    /\ ctx.made
    /\ LET r == CtxKillAll(sv, ctx, th, Attributes) IN
        /\ SvCall(th, "ctx_kill", "all", None, r)
        /\ ctx' = r.ctx

\* the bound values are forked, activated and killed one by one as well as
\* through a ScopedContext
NextCtx ==
    \E th \in SVThreads :
        \/ \E v \in AllSVs :
            \/ DoFork(th, v)
            \/ \E arg \in ForkIds : DoKill(th, v, arg)
            \/ \E identifier \in ScopeIds : DoActivate(th, v, identifier)
        \/ DoCtxInitAll(th)
        \/ DoCtxActivateAll(th)
        \/ DoCtxKillAll(th)

(* ------------------------------ async_run and signals ------------------ *)
\* KeyboardInterrupt (or the SIGTERM handler's exception) raised in the main
\* thread while it is in async_run
Interrupted(c) ==
    /\ outcome' = [ outcome EXCEPT ![c] =
           Raised("async_run", << Error("KeyboardInterrupt", None) >>, FALSE, loc[c]) ]
    /\ pc' = [ pc EXCEPT ![c] = "done" ]
    /\ loc' = [ loc EXCEPT ![c] = NoLocals ]

\* async_run: with BlockSignals(): future = self._executor.submit(...), the
\* block not yet left (it is left at once when submit raises)
SigSubmit(c) ==
    /\ AsyncRunSchedule(c)
    /\ sig' = IF shutdown THEN sig ELSE BlockEnter(sig)
    /\ UNCHANGED << hasExceptionGroup, svVars, svlock >>

\* async_run: BlockSignals.__exit__; a signal that was kept pending is
\* delivered when the mask is restored
SigLeave(c) ==
    /\ pc[c] = "register"
    /\ sig.current # << >>
    /\ IF sig.pending /\ ~BlockExit(sig).blocked
       THEN /\ sig' = [ BlockExit(sig) EXCEPT !.pending = FALSE ]
            /\ Interrupted(c)
       ELSE /\ sig' = BlockExit(sig)
            /\ UNCHANGED callerVars
    /\ UNCHANGED << hasExceptionGroup, svVars, svlock, managerVars, executorVars,
                    postponeVars, scopeVars, workerVars, calls, historyVars >>

\* SIGINT or SIGTERM is sent while the main thread is between submit and
\* the registration of the handle
SigSend(c) ==
    /\ pc[c] = "register"
    /\ sig.sent < MaxSignals
    /\ IF sig.blocked
       THEN /\ sig' = [ sig EXCEPT !.sent = @ + 1, !.pending = TRUE ]
            /\ UNCHANGED callerVars
       ELSE /\ sig' = [ sig EXCEPT !.sent = @ + 1 ]
            /\ Interrupted(c)
    /\ UNCHANGED << hasExceptionGroup, svVars, svlock, managerVars, executorVars,
                    postponeVars, scopeVars, workerVars, calls, historyVars >>

\* the main thread submits and collects; async_run with its signal guard
SigCaller(c) ==
    \/ SigSubmit(c)
    \/ SigLeave(c)
    \/ SigSend(c)
    \/ sig.current = << >> /\ AsyncRunRegister(c)
    \/ \E timeout \in BOOLEAN :
           AsyncGetParse(c, [kind |-> "none", hs |-> << >>], timeout)
    \/ AsyncGetWait(c)
    \/ AsyncGetReinsert(c)
    \/ Replay(c)
    \/ AsyncGetFinish(c)
    \/ Return(c)

NextSig ==
    \/ SigCaller("c1")
    \/ \E w \in Workers : Worker(w)

(* ------------------------------ the two kinds of lock ------------------ *)
\* threading.Lock.acquire: the lock l can be taken
CanTakeAlways(l) == TRUE

CanTake(l) == l = Unlocked

\* ScopedValue.kill on a pool thread (ScopedContext.__exit__): with self._lock
WorkerKillBegin(w) ==
    /\ wpc[w] = "scope_exit"
    /\ CanTake(svlock)
    /\ svlock' = w
    /\ UNCHANGED << mainVars, svVars, sig >>

\* ScopedValue.kill on a pool thread: pop, the lock is released
WorkerKillEnd(w) ==
    /\ svlock = w
    /\ ScopeExitBody(w)
    /\ svlock' = Unlocked
    /\ UNCHANGED << hasExceptionGroup, svVars, sig >>

\* _wait_all, under self._lock: future.cancel() returned True and
\* future._scope.kill() has entered ScopedValue.kill: with self._lock
WaitAllKillBegin(c) ==
    /\ pc[c] = "cancel"
    /\ loc[c].items # << >>
    /\ Cancel(Head(loc[c].items).f)
    /\ CanTake(svlock)
    /\ svlock' = c
    /\ fstate' = [ fstate EXCEPT ![Head(loc[c].items).f] = "CANCELLED" ]
    /\ UNCHANGED << hasExceptionGroup, svVars, sig, managerVars, work_queue,
                    shutdown, fres, postponeVars, scopeVars, workerVars,
                    callerVars, historyVars >>

\* _wait_all: ScopedValue.kill pops and releases its lock; next turn of the loop
WaitAllKillEnd(c) ==
    /\ svlock = c
    /\ WaitAllCancelBody(c)
    /\ svlock' = Unlocked
    /\ UNCHANGED << hasExceptionGroup, svVars, sig >>

\* the keywords of the main thread; the steps that take a ScopedValue lock
\* (fork in ScopedContext(), kill in _wait_all) wait for it
LockCaller(c) ==
    \/ CanTake(svlock) /\ AsyncRunSubmit(c)
    \/ AsyncRunRegister(c)
    \/ \E timeout \in BOOLEAN :
           AsyncGetParse(c, [kind |-> "none", hs |-> << >>], timeout)
    \/ AsyncGetWait(c)
    \/ AsyncGetReinsert(c)
    \/ Replay(c)
    \/ AsyncGetFinish(c)
    \/ \E closing \in BOOLEAN : WaitAllBegin(c, closing)
    \/ WaitAllKillBegin(c)
    \/ WaitAllKillEnd(c)
    \/ /\ pc[c] = "cancel" /\ loc[c].items # << >>
       /\ ~Cancel(Head(loc[c].items).f)
       /\ WaitAllCancel(c)
    \/ WaitAllClear(c)
    \/ WaitAllWait(c)
    \/ WaitAllFinish(c)
    \/ CloseJoin(c)
    \/ Return(c)

\* _run on a pool thread; activate and kill take the ScopedValue lock
LockWorker(w) ==
    \/ WorkerTake(w)
    \/ PostponeEnter(w)
    \/ CanTake(svlock) /\ ScopeEnter(w)
    \/ \E res \in {"result", "exception"} : KeywordEnd(w, res)
    \/ WorkerKillBegin(w)
    \/ WorkerKillEnd(w)
    \/ PostponeExit(w)
    \/ SetResult(w)

NextLocks ==
    \/ LockCaller("c1")
    \/ \E w \in Workers : LockWorker(w)

(* ------------------------------ two collecting threads ----------------- *)
\* a thread that calls async_get with one handle, or _end_suite
Collector(c) ==
    \/ \E h \in HandleIds :
           AsyncGetParse(c, [kind |-> "single", hs |-> << h >>], FALSE)
    \/ AsyncGetWait(c)
    \/ Replay(c)
    \/ AsyncGetFinish(c)
    \/ WaitAllBegin(c, FALSE)
    \/ WaitAllCancel(c)
    \/ WaitAllClear(c)
    \/ WaitAllWait(c)
    \/ WaitAllFinish(c)
    \/ Return(c)

\* the keywords of this scenario make up to MaxStepWrites calls on the writer
WritingWorker(w) ==
    \/ WorkerTake(w)
    \/ \E n \in 0 .. MaxStepWrites, res \in {"result", "exception"} :
           WorkerRun(w, n, res)

\* the main thread submits and collects, a second thread collects as well
NextPair ==
    \/ post_next < MaxStepTasks /\ AsyncRunSubmit("c1")
    \/ AsyncRunRegister("c1")
    \/ \E c \in Callers : Collector(c)
    \/ \E w \in Workers : WritingWorker(w)

(* ------------------------------ a collect that runs to its end -------- *)
\* the statements of async_get after _parse_handle
Collecting(c) ==
    \/ AsyncGetWait(c)
    \/ AsyncGetReinsert(c)
    \/ Replay(c)
    \/ AsyncGetFinish(c)

\* the main thread submits and collects
NextLive ==
    \/ post_next < MaxStepTasks /\ AsyncRunSubmit("c1")
    \/ AsyncRunRegister("c1")
    \/ \E arg \in HandleArgs, timeout \in BOOLEAN : AsyncGetParse("c1", arg, timeout)
    \/ Collecting("c1")
    \/ Return("c1")
    \/ \E w \in Workers : Worker(w)

\* every keyword returns or raises and every pool thread goes on running
\* (a WorkerRun or WorkerTake that can be taken is taken); the thread that is
\* inside async_get goes on running as well
FairLive ==
    /\ \A w \in Workers : WF_vars(Worker(w))
    /\ WF_vars(Collecting("c1"))

Spec == Init /\ [][Next]_vars

SpecCtx == InitSteps /\ [][NextCtx]_vars

SpecLive == InitSteps /\ [][NextLive]_vars /\ FairLive

SpecPair == InitSteps /\ [][NextPair]_vars

SpecLocks == InitSteps /\ [][NextLocks]_vars

SpecSig == InitSteps /\ [][NextSig]_vars

SpecSV == InitSteps /\ [][NextSV]_vars

SpecSteps == InitSteps /\ [][NextSteps]_vars

SpecConc == Init /\ [][NextConc]_vars

(* ------------------------------ properties ----------------------------- *)
\* a call of async_get that got past _parse_handle and has ended
Collected(c) ==
    /\ outcome[c].op = "async_get"
    /\ outcome[c].req.op = "async_get"

IsAscending(hs) == \A i, j \in 1 .. Len(hs) : i < j => hs[i] < hs[j]

\* the calls the sink received from the tasks fs, in the order it received them
SinkOf(fs) == SelectSeq(sink, LAMBDA call : call[1] \in Range(fs))

PosOf(fs, t) == CHOOSE i \in 1 .. Len(fs) : fs[i] = t

\* the calls come task by task in the order of fs, each task's calls in the
\* order in which it made them, none twice and none left in a queue
ReplayedInOrder(fs) ==
    LET p == SinkOf(fs) IN
    /\ \A a, b \in 1 .. Len(p) : a < b =>
          \/ PosOf(fs, p[a][1]) < PosOf(fs, p[b][1])
          \/ p[a][1] = p[b][1] /\ p[a][2] < p[b][2]
    /\ \A i \in 1 .. Len(fs) : postponed[fs[i]] = NoQueue

\* C1: async_get() without a handle, all of whose tasks finished, returns the
\* results in ascending handle order, and the sink has received the buffered
\* calls of the tasks task by task in ascending handle order, in whatever
\* order the tasks completed.
InvC1 ==
    \A c \in Callers :
        ( Collected(c) /\ outcome[c].req.all
          /\ outcome[c].req.done = Positions(outcome[c].req) ) =>
            LET r == outcome[c].req IN
            /\ IsAscending(r.handles)
            /\ \A i \in Positions(r) : handle_of[r.futs[i]] = r.handles[i]
            /\ ReplayedInOrder(r.futs)
            /\ outcome[c].kind = "return" =>
                  /\ Len(outcome[c].value) = Len(r.handles)
                  /\ \A i \in Positions(r) :
                        handle_of[outcome[c].value[i]] = r.handles[i]

\* async_get() returned three results and the sink holds a call of each task
WitC1 ==
    \E c \in Callers :
        /\ Collected(c) /\ outcome[c].req.all /\ outcome[c].kind = "return"
        /\ Len(outcome[c].value) = 3
        /\ \A t \in Range(outcome[c].req.futs) : \E i \in 1 .. Len(sink) : sink[i][1] = t

\* a call of async_get that gave up waiting with some of its tasks unfinished
TimedOut(c) ==
    /\ Collected(c)
    /\ outcome[c].req.done # Positions(outcome[c].req)

Timeouts(errors) == { i \in 1 .. Len(errors) : errors[i].kind = "TimeoutError" }

\* the table after a timed out async_get: the unfinished handles are back
\* under their numbers with their futures, uncancelled; the finished are gone
TableAfterTimeout(r) ==
    /\ \A i \in Positions(r) \ r.done :
          /\ HasKey(futures, r.handles[i])
          /\ Get(futures, r.handles[i]) = r.futs[i]
          /\ fstate[r.futs[i]] \in {"PENDING", "RUNNING", "FINISHED"}
    /\ \A i \in r.done : ~HasKey(futures, r.handles[i])

\* C2 as stated: a timed out async_get raises the timeout error, leaves the
\* N-K unfinished handles in the table and removes the K finished ones.
InvC2Stated ==
    \A c \in Callers : TimedOut(c) =>
        LET r == outcome[c].req IN
        /\ outcome[c].kind = "raise"
        /\ ~outcome[c].grouped
        /\ outcome[c].errors =
              << TimeoutError(Len(r.handles) - Cardinality(r.done), Len(r.handles)) >>
        /\ TableAfterTimeout(r)

\* C2: a timed out async_get raises; what it raises is the timeout error
\* (N-K of N unfinished), alone when none of the K finished tasks failed or
\* the runtime has no ExceptionGroup, and otherwise inside one group after
\* the errors of the failed finished tasks; the N-K unfinished handles are
\* back in the table under their numbers and the K finished ones are gone.
InvC2 ==
    \A c \in Callers : TimedOut(c) =>
        LET r == outcome[c].req
            e == outcome[c].errors
            failed == { i \in r.done : fres[r.futs[i]] = "exception" }
        IN
        /\ outcome[c].kind = "raise"
        /\ e # << >>
        /\ e[Len(e)] =
              TimeoutError(Len(r.handles) - Cardinality(r.done), Len(r.handles))
        /\ Timeouts(e) = {Len(e)}
        /\ outcome[c].grouped <=> (failed # {} /\ hasExceptionGroup)
        /\ outcome[c].grouped => Len(e) = Cardinality(failed) + 1
        /\ ~outcome[c].grouped => Len(e) = 1
        /\ TableAfterTimeout(r)

\* a timed out async_get of three handles of which one had finished
WitC2 ==
    \E c \in Callers :
        /\ TimedOut(c)
        /\ Len(outcome[c].req.handles) = 3
        /\ Cardinality(outcome[c].req.done) = 1
        /\ Cardinality(Keys(futures)) = 2

\* C3 as stated: of three tasks collected together the second failed and the
\* others succeeded; the error raised names the second task, and the results
\* of the first and third are in what was raised or their handles can still
\* be collected.
InvC3Stated ==
    \A c \in Callers :
        ( /\ Collected(c)
          /\ Len(outcome[c].req.handles) = 3
          /\ outcome[c].req.done = 1 .. 3
          /\ fres[outcome[c].req.futs[1]] = "result"
          /\ fres[outcome[c].req.futs[2]] = "exception"
          /\ fres[outcome[c].req.futs[3]] = "result" ) =>
            LET r == outcome[c].req IN
            /\ outcome[c].kind = "raise"
            /\ TaskError(r.futs[2]) \in Range(outcome[c].errors)
            /\ \A i \in {1, 3} :
                  \/ HasKey(futures, r.handles[i])
                  \/ \E e \in Range(outcome[c].errors) :
                        e.kind = "result" /\ e.task = r.futs[i]

\* no caller is inside a call of the library
Quiet == \A c \in Callers : pc[c] \in {"idle", "done"}

\* C4 as stated: once the handle of a task whose keyword raised has left
\* the table for good, the error was raised to a caller exactly once.
InvC4Stated ==
    Quiet =>
        \A t \in Tasks :
            ( /\ fres[t] = "exception"
              /\ handle_of[t] # None
              /\ ~HasKey(futures, handle_of[t])
              /\ removals[handle_of[t]] > 0 ) => raised[t] = 1

\* the request names a handle twice
HasDuplicate(arg) == \E i \in 1 .. Len(arg.hs) : IsDup(arg.hs, i)

\* the call of async_get failed in _parse_handle: it raised err and never waited
FailedAtOnce(c, kinds) ==
    /\ pc'[c] = "done"
    /\ outcome'[c].op = "async_get"
    /\ outcome'[c].kind = "raise"
    /\ ~outcome'[c].grouped
    /\ Len(outcome'[c].errors) = 1
    /\ outcome'[c].errors[1].kind \in kinds

\* C5: async_get of a list that names a live handle twice, all its handles
\* being in the table, fails with the usage error without waiting, and the
\* table still holds every handle it held, with the same future.
PropC5 ==
    [][ \A c \in Callers : (pc[c] = "idle" /\ calls' # calls) =>
        \A arg \in HandleArgs, timeout \in BOOLEAN :
          ( /\ HasDuplicate(arg)
            /\ \A i \in 1 .. Len(arg.hs) : HasKey(futures, arg.hs[i])
            /\ AsyncGetParse(c, arg, timeout) ) =>
              /\ FailedAtOnce(c, {"RuntimeError"})
              /\ futures' = futures
              /\ \A i \in 1 .. Len(arg.hs) : HasKey(futures', arg.hs[i]) ]_vars

\* async_get has just refused a duplicate and the table holds three handles
WitC5 ==
    \E c \in Callers :
        /\ pc[c] = "done"
        /\ outcome[c].op = "async_get"
        /\ outcome[c].errors = << Error("RuntimeError", None) >>
        /\ Cardinality(Keys(futures)) = 3

\* C6: async_get naming a handle that is not in the table (never issued,
\* or already collected) fails at once with a usage error: it does not
\* wait, raises no timeout error, and leaves the table as it was.
PropC6 ==
    [][ \A c \in Callers : (pc[c] = "idle" /\ calls' # calls) =>
        \A arg \in HandleArgs, timeout \in BOOLEAN :
          ( /\ \E i \in 1 .. Len(arg.hs) : ~HasKey(futures, arg.hs[i])
            /\ AsyncGetParse(c, arg, timeout) ) =>
              /\ FailedAtOnce(c, {"KeyError", "RuntimeError"})
              /\ futures' = futures ]_vars

\* async_get has just refused an unknown handle while one handle was already
\* collected, one was never issued and one is in the table
WitC6 ==
    \E c \in Callers :
        /\ pc[c] = "done"
        /\ outcome[c].op = "async_get"
        /\ outcome[c].errors = << Error("KeyError", None) >>
        /\ \E h \in HandleIds : removals[h] = 1
        /\ \E h \in HandleIds : h >= last_thread_handle
        /\ futures # << >>

\* the failures a call of async_get met, in the order it collected them:
\* the errors of the finished tasks in request order, then the timeout
Failures(r) ==
    LET failed == { i \in r.done : fres[r.futs[i]] = "exception" }
        picked == SelectSeqIdx(r.futs, 1, failed)
        errs == [ i \in 1 .. Len(picked) |-> TaskError(picked[i]) ]
    IN IF r.done = Positions(r) THEN errs
       ELSE Append(errs, TimeoutError(Len(r.handles) - Cardinality(r.done),
                                      Len(r.handles)))

Issued == { t \in Tasks : handle_of[t] # None }

\* C8: a handle async_run hands out is non-negative and above every handle
\* handed out before, whichever thread submits; a handle once handed out
\* stays with its task, also after it was collected, re-inserted or cleared;
\* the counter never goes back, and every key of the table is below it.
PropC8 ==
    [][ /\ last_thread_handle' >= last_thread_handle
        /\ \A t \in Issued : handle_of'[t] = handle_of[t]
        /\ \A t \in Tasks \ Issued : handle_of'[t] # None =>
              /\ handle_of'[t] >= 0
              /\ handle_of'[t] < last_thread_handle'
              /\ \A u \in Issued : handle_of[u] < handle_of'[t]
        /\ \A h \in Keys(futures') : h >= 0 /\ h < last_thread_handle'
        /\ Cardinality(Keys(futures')) = Len(futures') ]_vars

\* the second thread has just been given a handle above one that was
\* already removed, while the main thread is inside async_get
WitC8 ==
    /\ pc["c2"] = "done"
    /\ outcome["c2"].op = "async_run"
    /\ outcome["c2"].kind = "return"
    /\ pc["c1"] \in {"wait", "reinsert", "replay"}
    /\ \E h \in HandleIds : removals[h] = 1 /\ h < outcome["c2"].value[1]

\* C9: a handle leaves the table for good at most once, through async_get
\* or through _wait_all; a handle in the table has not left it for good,
\* and with no call in flight every handle handed out is either in the
\* table or has left it exactly once.
InvC9 ==
    /\ Cardinality(Keys(futures)) = Len(futures)
    /\ \A h \in HandleIds :
          /\ removals[h] <= 1
          /\ HasKey(futures, h) => removals[h] = 0
          /\ (Quiet /\ h < last_thread_handle /\ ~HasKey(futures, h)) =>
                removals[h] = 1

\* _wait_all has cleared handles out of the table after async_get had
\* collected another one
WitC9 ==
    \E c \in Callers :
        /\ pc[c] = "done"
        /\ outcome[c].op \in {"wait_all", "close"}
        /\ LET r == outcome[c].req
               cleared == r.cancelled \cup Range(r.handles)
           IN /\ cleared # {}
              /\ \A h \in cleared : removals[h] = 1
              /\ \E h \in HandleIds \ cleared : removals[h] = 1

\* a call of _wait_all that is past its wait, and its locals
PastWait(c) ==
    \/ pc[c] \in {"wa_replay", "join"}
    \/ /\ pc[c] = "done"
       /\ outcome[c].op \in {"wait_all", "close"}
       /\ outcome[c].kind = "return"

WaitAllLocals(c) == IF pc[c] = "done" THEN outcome[c].req ELSE loc[c]

TaskOf(h) == CHOOSE t \in Tasks : handle_of[t] = h

\* C10: once _wait_all is past its wait, the handles it cancelled are those
\* whose tasks had not started: their futures are cancelled, their contexts
\* were killed once and never activated, and their keywords never ran (no
\* result, no queue of buffered calls); the other handles of the table were
\* kept and their tasks have run to completion. A cancelled task never runs.
InvC10 ==
    /\ \A t \in Tasks : fstate[t] = "CANCELLED" =>
          /\ scope[t].kills = 1
          /\ scope[t].activations = 0
          /\ fres[t] = "none"
          /\ postponed[t] = NoQueue
          /\ \A w \in Workers : wtask[w] # t
    /\ \A c \in Callers : PastWait(c) =>
          LET r == WaitAllLocals(c) IN
          /\ r.cancelled \cap Range(r.handles) = {}
          /\ \A h \in r.cancelled : fstate[TaskOf(h)] = "CANCELLED"
          /\ \A i \in 1 .. Len(r.handles) :
                /\ handle_of[r.futs[i]] = r.handles[i]
                /\ fstate[r.futs[i]] = "FINISHED"
                /\ fres[r.futs[i]] # "none"
                /\ scope[r.futs[i]].activations = 1
          /\ \A h \in r.cancelled \cup Range(r.handles) : ~HasKey(futures, h)

\* _wait_all returned after it cancelled two handles and waited for a third
WitC10 ==
    \E c \in Callers :
        /\ pc[c] = "done"
        /\ outcome[c].op = "wait_all"
        /\ outcome[c].kind = "return"
        /\ Cardinality(outcome[c].req.cancelled) = 2
        /\ Len(outcome[c].req.handles) = 1

\* the calls the sink received from the tasks fs come task by task in
\* ascending handle order, each task's calls in the order it made them
SinkAscending(fs) ==
    LET p == SinkOf(fs) IN
    \A a, b \in 1 .. Len(p) : a < b =>
        \/ handle_of[p[a][1]] < handle_of[p[b][1]]
        \/ p[a][1] = p[b][1] /\ p[a][2] < p[b][2]

\* what _wait_all has replayed so far of the handles it kept
ReplayedSoFar(r) == Range(r.futs) \ Range(r.replay)

\* C11 as stated: _close / _end_suite replays every handle that was in the
\* table, the cancelled ones included, in ascending handle order.
InvC11Stated ==
    \A c \in Callers : (PastWait(c) /\ WaitAllLocals(c).replay = << >>) =>
        LET r == WaitAllLocals(c) IN
        /\ \A h \in r.cancelled \cup Range(r.handles) :
              TaskOf(h) \in ReplayedSoFar(r)
        /\ SinkAscending(r.futs)

\* C11: _wait_all replays the handles it did not cancel, in ascending handle
\* order: what is left to replay is ascending and above everything replayed,
\* the calls reach the sink task by task in that order, and a replayed task
\* has no queue left. The cancelled handles are not replayed: their tasks
\* never ran and have no queue. _wait_all raises nothing, and the pool is
\* shut down only when no queue is left at all.
InvC11 ==
    /\ \A c \in Callers : outcome[c].op \in {"wait_all", "close"} =>
          outcome[c].kind = "return"
    /\ shutdown => \A t \in Tasks : postponed[t] = NoQueue
    /\ \A c \in Callers : PastWait(c) =>
          LET r == WaitAllLocals(c) IN
          /\ Range(r.replay) \subseteq Range(r.futs)
          /\ \A i, j \in 1 .. Len(r.replay) :
                i < j => handle_of[r.replay[i]] < handle_of[r.replay[j]]
          /\ \A t \in ReplayedSoFar(r) :
                /\ postponed[t] = NoQueue
                /\ \A u \in Range(r.replay) : handle_of[t] < handle_of[u]
          /\ SinkAscending(r.futs)
          /\ \A h \in r.cancelled :
                /\ TaskOf(h) \notin Range(r.futs)
                /\ postponed[TaskOf(h)] = NoQueue
                /\ \A i \in 1 .. Len(sink) : sink[i][1] # TaskOf(h)

\* _close is about to shut the pool down: it cancelled one handle and has
\* replayed the calls of the two it waited for
WitC11 ==
    \E c \in Callers :
        /\ pc[c] = "join"
        /\ Cardinality(loc[c].cancelled) = 1
        /\ Len(loc[c].handles) = 2
        /\ Len(SinkOf(loc[c].futs)) = 2

\* C12 as stated: async_get of an explicit list of handles replays the
\* handles that finished during the wait in ascending handle order, however
\* the list was ordered.
InvC12Stated ==
    \A c \in Callers : (Collected(c) /\ ~outcome[c].req.all) =>
        LET r == outcome[c].req IN
        SinkAscending(SelectSeqIdx(r.futs, 1, r.done))

\* the threads on which id is the active id of the journal
ActiveOn(id) == { th \in Threads : post_id[th] = id }

\* C13: while a thread replays an id, or has it on its list to replay, the
\* id is active on no thread.
InvC13 ==
    \A c \in Callers : pc[c] \in {"replay", "wa_replay"} =>
        \A i \in 1 .. Len(loc[c].replay) : ActiveOn(loc[c].replay[i]) = {}

\* the main thread is replaying a buffered call of one task while a pool
\* thread runs another task with its id active
WitC13 ==
    \E c \in Callers :
        /\ pc[c] = "replay"
        /\ loc[c].replay # << >>
        /\ postponed[Head(loc[c].replay)] \notin {NoQueue, << >>}
        /\ \E w \in Workers : post_id[w] # None /\ wpc[w] = "body"

\* the step is a call of a patched writer function on thread th
WriteOn(th) ==
    IF th \in Workers THEN KeywordWrite(th) ELSE DirectWrite(th)

\* the call the step makes
WrittenBy(th) ==
    IF th \in Workers THEN Call(wtask[th], wn[th]) ELSE Call(None, 0)

\* C14: a call of a patched writer function on a thread with an active id is
\* appended to the queue of that id and the sink is left alone; a call on a
\* thread with no active id goes to the sink and every queue is left alone.
PropC14 ==
    [][ \A th \in Threads : WriteOn(th) =>
            IF post_id[th] # None
            THEN /\ postponed[post_id[th]] # NoQueue
                 /\ postponed' = [ postponed EXCEPT
                        ![post_id[th]] = Append(@, WrittenBy(th)) ]
                 /\ sink' = sink
            ELSE /\ sink' = Append(sink, WrittenBy(th))
                 /\ postponed' = postponed ]_vars

\* a write was applied directly while a pool thread has buffered a call
\* under its active id, which has not reached the sink
WitC14 ==
    /\ \E i \in 1 .. Len(sink) : sink[i] = Call(None, 0)
    /\ \E w \in Workers :
        /\ post_id[w] # None
        /\ postponed[post_id[w]] = << Call(post_id[w], 0) >>
        /\ \A i \in 1 .. Len(sink) : sink[i][1] # post_id[w]

\* the calls task t made on the writer, in the order it made them
CallsOf(t) == [ k \in 1 .. wrote[t] |-> Call(t, k - 1) ]

\* the calls of task t that are still buffered
Buffered(t) == IF postponed[t] = NoQueue THEN << >> ELSE postponed[t]

\* the ids whose replay the caller has completed in its current call
Replayed(c) ==
    IF pc[c] = "replay"
    THEN Range(ReplayList(loc[c].handles, loc[c].futs, loc[c].done))
            \ Range(loc[c].replay)
    ELSE IF pc[c] = "wa_replay"
    THEN Range(loc[c].futs) \ Range(loc[c].replay)
    ELSE {}

\* the ids some caller is replaying or is about to replay
InReplay(t) ==
    \E c \in Callers :
        pc[c] \in {"replay", "wa_replay"} /\ t \in Range(loc[c].replay)

\* C15: the calls of an id reach the sink in the order they were buffered,
\* each once: what the sink received of the id followed by what is still
\* buffered is the sequence of calls made. When replay(id) is over, all of
\* them are in the sink and the queue entry is gone. After the activation
\* block was left the thread has no active id and the buffered calls stay,
\* all of them, until the id is replayed.
InvC15 ==
    /\ \A t \in Tasks : SinkOf(<< t >>) \o Buffered(t) = CallsOf(t)
    /\ \A c \in Callers : \A t \in Replayed(c) :
            postponed[t] = NoQueue /\ SinkOf(<< t >>) = CallsOf(t)
    /\ \A w \in Workers : wpc[w] = "set_result" =>
            /\ post_id[w] = None
            /\ postponed[wtask[w]] = CallsOf(wtask[w])
    /\ \A t \in Tasks : (fstate[t] = "FINISHED" /\ ~InReplay(t)) =>
            postponed[t] \in {NoQueue, CallsOf(t)}

\* an id with two buffered calls was replayed: both are in the sink in the
\* order made and the queue entry is gone, while the caller goes on replaying
WitC15 ==
    \E c \in Callers : \E t \in Replayed(c) :
        /\ wrote[t] = 2
        /\ SinkOf(<< t >>) = << Call(t, 0), Call(t, 1) >>
        /\ postponed[t] = NoQueue
        /\ loc[c].replay # << >>

(* ------------------------------ ScopedValue: properties ---------------- *)
\* the last step was the call op on v by thread th
Called(th, op, v) ==
    /\ sv_calls' = sv_calls + 1
    /\ sv_ret'.th = th /\ sv_ret'.op = op /\ sv_ret'.v = v

\* C16: the root entry is in the scope mapping of every ScopedValue whatever
\* calls the threads made, and a kill that targets root (kill(None), or
\* kill() on a thread whose active scope is root) raises and removes nothing.
PropC16Stated ==
    [][ /\ \A v \in SVs : SvHas(sv', v, None)
        /\ \A th \in SVThreads, v \in SVs :
            ( /\ Called(th, "kill", v)
              /\ \/ sv_ret'.arg = None
                 \/ sv_ret'.arg = Current /\ SvScope(sv, v, th) = None )
            => (sv_ret'.raised # "none" /\ sv'.scopes = sv.scopes) ]_vars

\* thread th kills, by its id, the scope of v that is active on it
KillsActive(th, v) ==
    /\ Called(th, "kill", v)
    /\ sv_ret'.arg \in ForkIds
    /\ SvScope(sv, v, th) = sv_ret'.arg
    /\ SvHas(sv, v, sv_ret'.arg)

\* what the kill of the active scope does to the mapping and the threads
KillResets(th, v) ==
    /\ sv_ret'.raised = "none"
    /\ ~SvHas(sv', v, sv_ret'.arg)
    /\ SvScope(sv', v, th) = None
    /\ \A o \in SVThreads \ {th} : SvScope(sv', v, o) = SvScope(sv, v, o)

\* C17: the kill of a non-root scope id that is active on the calling thread
\* removes the entry and resets the thread to root, so that get() on that
\* thread then returns the root value; no other thread's active id changes.
PropC17Stated ==
    [][ \A th \in SVThreads, v \in SVs : KillsActive(th, v) =>
            /\ KillResets(th, v)
            /\ SvGet(sv', v, th).raised = "none"
            /\ SvGet(sv', v, th).value = sv'.scopes[v][None] ]_vars

\* the structure of a value: what == compares
DeepVal(s, o) ==
    IF o = Undefined THEN [ kind |-> "missing", field |-> 0, inner |-> None ]
    ELSE [ kind |-> s.heap[o].kind, field |-> s.heap[o].field,
           inner |-> IF s.heap[o].inner = None THEN None
                     ELSE s.heap[s.heap[o].inner].field ]

\* thread th has just forked v
Forked(th, v) == Called(th, "fork", v) /\ sv_ret'.raised = "none"

\* the value active on th when it forked
ActiveAtFork(v, th) == sv.scopes[v][SvScope(sv, v, th)]

\* v.activate(id) followed by v.get() on th, id being the fork just made
GetInFork(v, th) == SvGet(SvActivate(sv', v, th, sv_ret'.value).s, v, th)

\* thread th, on which a fork with a copyable value is active, has just
\* made a call op on v
ChangedInFork(th, v, ops) ==
    /\ \E op \in ops : Called(th, op, v)
    /\ SvScope(sv, v, th) \in ForkIds
    /\ SvHas(sv, v, SvScope(sv, v, th))
    /\ Copyable(sv, sv.scopes[v][SvScope(sv, v, th)])

\* the scopes of v other than the one active on th are as they were
OthersKept(th, v) ==
    \A j \in ScopeIds \ {SvScope(sv, v, th)} :
        /\ sv'.scopes[v][j] = sv.scopes[v][j]
        /\ DeepVal(sv', sv.scopes[v][j]) = DeepVal(sv, sv.scopes[v][j])

\* C18, as stated: for every ScopedValue, get() after activate(fork())
\* returns a value equal in structure to the value that was active at the
\* fork and, when that is copyable, another object; a later set or change in
\* place in the fork, however deep, leaves the other scopes as they were.
PropC18Stated ==
    [][ \A th \in SVThreads, v \in SVs :
          /\ Forked(th, v) =>
                /\ GetInFork(v, th).raised = "none"
                /\ DeepVal(sv', GetInFork(v, th).value)
                       = DeepVal(sv, ActiveAtFork(v, th))
                /\ Copyable(sv, ActiveAtFork(v, th)) =>
                       GetInFork(v, th).value # ActiveAtFork(v, th)
          /\ ChangedInFork(th, v, {"set", "mutate", "mutate_inner"}) =>
                OthersKept(th, v) ]_vars

\* C18: with no forkvalue configured, get() after activate(fork()) returns a
\* value equal in structure to the value that was active at the fork: a new
\* object when that value has copy(), the very same object otherwise; with a
\* forkvalue configured it returns the forkvalue. A set in a fork, or a
\* change in place of the copied object itself, leaves the other scopes as
\* they were.
PropC18 ==
    [][ \A th \in SVThreads, v \in SVs :
          /\ Forked(th, v) =>
                /\ GetInFork(v, th).raised = "none"
                /\ IF ForkValue(v) # Undefined
                   THEN GetInFork(v, th).value = ForkValue(v)
                   ELSE /\ DeepVal(sv', GetInFork(v, th).value)
                               = DeepVal(sv, ActiveAtFork(v, th))
                        /\ IF Copyable(sv, ActiveAtFork(v, th))
                           THEN /\ GetInFork(v, th).value = sv.nobj
                                /\ \A i \in ScopeIds :
                                       sv.scopes[v][i] # GetInFork(v, th).value
                           ELSE GetInFork(v, th).value = ActiveAtFork(v, th)
          /\ ChangedInFork(th, v, {"set", "mutate"}) => OthersKept(th, v) ]_vars

\* a thread changed in place the copy it got by a fork of the root value:
\* the fork and the root now differ
WitC18 ==
    /\ sv_ret.op = "mutate" /\ sv_ret.v = "attr"
    /\ \E th \in SVThreads :
        /\ sv_ret.th = th
        /\ SvScope(sv, "attr", th) \in ForkIds
        /\ SvHas(sv, "attr", SvScope(sv, "attr", th))
        /\ SvHas(sv, "attr", None)
        /\ Copyable(sv, sv.scopes["attr"][None])
        /\ DeepVal(sv, sv.scopes["attr"][SvScope(sv, "attr", th)]).field = 1
        /\ DeepVal(sv, sv.scopes["attr"][None]).field = 0

\* C19: ScopedContext.kill() a second time, after a first kill() that
\* returned, raises nothing and changes neither a scope mapping nor a
\* thread's active scope.
PropC19Stated ==
    [][ \A th \in SVThreads :
            ( /\ Called(th, "ctx_kill", "all")
              /\ sv_ret.op = "ctx_kill" /\ sv_ret.raised = "none"
              /\ ctx.kills = 1 )
            => /\ sv_ret'.raised = "none"
               /\ sv'.scopes = sv.scopes
               /\ sv'.scopeid = sv.scopeid ]_vars

(* ------------------------------ ScopedContext per task ----------------- *)
\* the pool thread that runs task t has left the body of the with block
AfterBody(t) ==
    \E w \in Workers :
        wtask[w] = t /\ wpc[w] \in {"postpone_exit", "set_result"}

\* C20: the ScopedContext of a task is active only on the pool thread that
\* runs the task, between its activation and its kill; it is activated at
\* most once and killed at most once, and never active once killed. A task
\* that ran was activated once and killed once, by its pool thread on leaving
\* the with block; a task cancelled before it started was killed once, by
\* _wait_all, and never activated.
InvC20 ==
    /\ \A t \in Tasks :
        /\ scope[t].kills <= 1
        /\ scope[t].activations <= 1
        /\ fstate[t] = "FINISHED" =>
              scope[t].kills = 1 /\ scope[t].activations = 1
        /\ fstate[t] = "CANCELLED" =>
              scope[t].kills = 1 /\ scope[t].activations = 0
        /\ fstate[t] = "PENDING" =>
              scope[t].kills = 0 /\ scope[t].activations = 0
        /\ fstate[t] = "RUNNING" =>
              /\ \E w \in Workers : wtask[w] = t
              /\ scope[t].kills = (IF AfterBody(t) THEN 1 ELSE 0)
    /\ \A th \in Threads : scopeid[th] # None =>
        /\ th \in Workers
        /\ wtask[th] = scopeid[th]
        /\ wpc[th] \in {"body", "scope_exit"}
        /\ scope[scopeid[th]].kills = 0
        /\ scope[scopeid[th]].activations = 1

\* one task ran and its context was killed by its pool thread, another was
\* cancelled by _wait_all before it started and its context was killed there
WitC20 ==
    \E t, u \in Tasks :
        /\ fstate[t] = "FINISHED" /\ scope[t].kills = 1 /\ scope[t].activations = 1
        /\ fstate[u] = "CANCELLED" /\ scope[u].kills = 1 /\ scope[u].activations = 0

(* ------------------------------ BlockSignals: properties --------------- *)
\* the tasks scheduled on the pool whose handle is not in any table yet
Unregistered == { t \in Tasks : fstate[t] # "NONE" /\ handle_of[t] = None }

\* C21: while async_run has scheduled a task and not yet stored its handle,
\* SIGINT and SIGTERM are blocked on the main thread; no call of async_run
\* ends with a scheduled task that has no handle; outside the guard the mask
\* is the one that was in force before.
InvC21Stated ==
    /\ \A c \in Callers : pc[c] = "register" => sig.blocked
    /\ Quiet => Unregistered = {}
    /\ Quiet => (~sig.blocked /\ sig.current = << >>)

(* ------------------------------ locks: properties ---------------------- *)
\* thread th holds the handle-table lock and a ScopedValue lock
HoldsBoth(th) == lock = th /\ svlock = th

\* C22, as stated: no thread holds the handle-table lock and a ScopedValue
\* lock at the same time.
InvC22Stated == \A th \in Threads : ~HoldsBoth(th)

\* C22: the two kinds of lock are held together only by _wait_all, which
\* takes the handle-table lock first and a ScopedValue lock inside it; a
\* thread that holds a ScopedValue lock without the handle-table lock is a
\* pool thread inside kill, which releases it without asking for the
\* handle-table lock; so no thread waits for the handle-table lock while it
\* holds a ScopedValue lock, and a thread inside kill is the one holder.
InvC22 ==
    /\ \A c \in Callers : svlock = c =>
          /\ lock = c
          /\ pc[c] = "cancel"
          /\ loc[c].op \in {"wait_all", "close"}
          /\ loc[c].items # << >>
          /\ fstate[Head(loc[c].items).f] = "CANCELLED"
    /\ \A w \in Workers : svlock = w =>
          /\ lock # w
          /\ wpc[w] = "scope_exit"
    /\ \A th \in Threads : lock = th => th \in Callers
    /\ \A c \in Callers :
          ( /\ pc[c] = "cancel" /\ loc[c].items # << >>
            /\ fstate[Head(loc[c].items).f] = "CANCELLED" ) => svlock = c

\* _wait_all is inside ScopedValue.kill for a task it cancelled, under the
\* handle-table lock, while a pool thread waits to kill the context of its task
WitC22 ==
    \E c \in Callers, w \in Workers :
        /\ HoldsBoth(c)
        /\ wpc[w] = "scope_exit"

\* the tasks whose buffered calls a call with the locals l replays
BatchOf(l) ==
    IF l.op = "async_get"
    THEN Range(ReplayList(l.handles, l.futs, l.done))
    ELSE Range(l.futs)

\* the batch of the call that c is replaying, or of the call that c just ended
Batch(c) ==
    IF pc[c] \in {"replay", "wa_replay"} THEN BatchOf(loc[c])
    ELSE IF pc[c] = "done" THEN BatchOf(outcome[c].req)
    ELSE {}

\* the sink received a call of the tasks B between two calls of the tasks A
Interleaved(A, B) ==
    \E i, j, k \in 1 .. Len(sink) :
        /\ i < j /\ j < k
        /\ sink[i][1] \in A /\ sink[j][1] \in B /\ sink[k][1] \in A

\* C23: when two threads run async_get (or _wait_all) at the same time on
\* disjoint sets of handles, no call of one batch reaches the sink between
\* two calls of the other batch.
InvC23Stated ==
    \A c, d \in Callers :
        (c # d /\ Batch(c) \cap Batch(d) = {}) => ~Interleaved(Batch(c), Batch(d))

\* the pool thread w is between the activation of its task's ScopedContext
\* and the end of the kill of that context
InContext(w) == wpc[w] \in {"body", "scope_exit"} \/ scopeid[w] # None

\* this step is a call of the keyword that w runs on the writer
KeywordWrites(w) == wn'[w] = wn[w] + 1

\* C24: the sink is mutated only by the thread that replays (the main
\* thread), never by a pool thread that executes a task: the id of the task
\* is active on the pool thread from before its ScopedContext is activated
\* until after that context is killed, and every call the keyword makes on
\* the writer in between goes to the queue of that id.
PropC24 ==
    [][ /\ \A w \in Workers :
            /\ (wpc[w] = "scope_enter" \/ InContext(w)) =>
                  (post_id[w] = wtask[w] /\ postponed[wtask[w]] # NoQueue)
            /\ KeywordWrites(w) =>
                  /\ InContext(w)
                  /\ sink' = sink
                  /\ postponed'[wtask[w]] =
                        Append(postponed[wtask[w]], Call(wtask[w], wn[w]))
        /\ sink' # sink =>
              /\ workerVars' = workerVars
              /\ \E c \in Callers :
                    pc[c] \in {"idle", "replay", "wa_replay"} ]_vars

\* a keyword has made all its calls on the writer, its pool thread is about
\* to kill the context, and the sink holds nothing but a call the main
\* thread made itself
WitC24 ==
    \E w \in Workers :
        /\ wpc[w] = "scope_exit"
        /\ scopeid[w] = wtask[w]
        /\ Len(postponed[wtask[w]]) = MaxStepWrites
        /\ sink = << Call(None, 0) >>

(* ------------------------------ ScopedValue under several threads ------ *)
\* this step puts the id i into the mapping of the scoped value v
Appears(v, i) == ~SvHas(sv, v, i) /\ SvHas(sv', v, i)

\* this step is a fork of v that returns the id i, an id not returned before
\* (the ids returned so far are those below _next)
ForkReturns(v, i) ==
    /\ sv_ret'.op \in {"fork", "ctx_init"}
    /\ sv_ret'.raised = "none"
    /\ i = sv.next[v]
    /\ sv'.next[v] = i + 1

\* C25: whatever calls of fork/activate/kill/get/set several threads make on
\* a ScopedValue, an id other than the root enters the scope mapping only
\* as the id a fork returns, and fork returns no id twice: an id that was
\* killed never comes back, also not when a thread that still has the killed
\* id active calls set.
PropC25Stated ==
    [][ \A v \in SVs, i \in ForkIds : Appears(v, i) => ForkReturns(v, i) ]_vars

(* ------------------------------ termination of async_get --------------- *)
\* async_get without a timeout that is waiting ends: it returns or raises
CollectEnds ==
    \A c \in Callers :
        (pc[c] = "wait" /\ ~loc[c].timeout) ~> (pc[c] = "done")

\* a call of async_get without a timeout that got past _parse_handle has
\* ended, and none of its handles is in the table
CollectedAreGone ==
    \A c \in Callers : (pc[c] = "done" /\ Collected(c) /\ ~outcome[c].req.timeout) =>
        \A i \in 1 .. Len(outcome[c].req.handles) :
            ~HasKey(futures, outcome[c].req.handles[i])

\* a call of async_get that ends in _parse_handle leaves none of the handles
\* it was given in the table
RefusedAreGone ==
    \A c \in Callers : (pc[c] = "idle" /\ calls' # calls) =>
        \A arg \in HandleArgs :
            (AsyncGetParse(c, arg, FALSE) /\ pc'[c] = "done") =>
                \A i \in 1 .. Len(arg.hs) : ~HasKey(futures', arg.hs[i])

\* C26 as stated: when every keyword terminates and the pool threads are
\* scheduled fairly, async_get without a timeout returns or raises in the
\* end, and when it has, none of the handles it was called with is in the
\* table.
PropC26Stated ==
    /\ CollectEnds
    /\ []CollectedAreGone
    /\ [][RefusedAreGone]_vars

\* C26: when every keyword terminates and the pool threads are scheduled
\* fairly, async_get without a timeout returns or raises in the end; when
\* it has got past the check of its handles, none of its handles is in the
\* table once it has ended.
PropC26 ==
    /\ CollectEnds
    /\ []CollectedAreGone

\* async_get without a timeout has returned the results of two handles and
\* the table is empty
WitC26 ==
    /\ pc["c1"] = "done"
    /\ Collected("c1")
    /\ ~outcome["c1"].req.timeout
    /\ outcome["c1"].kind = "return"
    /\ Len(outcome["c1"].req.handles) = 2
    /\ futures = << >>

(* ------------------------------ reuse of a pool thread ----------------- *)
\* the pool thread w has left the with block of _run, or has no work item,
\* or has just taken one
OutsideWith(w) == wpc[w] \in {"set_result", "idle", "postpone_enter"}

\* C27: when the body of a task is over, with a result or an exception, the
\* pool thread has no active scope of the bound values and no active id of
\* the journal before the future is set done: a future that is done is
\* active on no thread, and a pool thread that takes its next work item
\* starts at the root scope with no id.
InvC27 ==
    /\ \A w \in Workers : OutsideWith(w) =>
          (scopeid[w] = None /\ post_id[w] = None)
    /\ \A t \in Tasks : fstate[t] \in {"FINISHED", "CANCELLED"} =>
          \A th \in Threads : scopeid[th] # t /\ post_id[th] # t

\* the first pool thread has run a task that raised and has now taken the
\* next work item
WitC27 ==
    /\ wpc["w1"] = "postpone_enter"
    /\ wtask["w1"] = 1
    /\ fstate[0] = "FINISHED" /\ fres[0] = "exception"
    /\ wrote[0] > 0

(* ------------------------------ pairing of the fork ids ---------------- *)
\* C28: the id that ScopedContext.activate() and kill() pass to the scoped
\* value of a binding is the id that the construction of the context got
\* from the fork of that same scoped value, whatever was forked and killed
\* on the single scoped values before.
InvC28Stated ==
    ctx.made => \A i \in 1 .. Len(ctx.passed) :
        \E j \in 1 .. Len(ctx.obtained) : ctx.obtained[j] = ctx.passed[i]

(* ------------------------------ async_run against _close --------------- *)
\* the tasks that async_run has scheduled on the pool and whose handle no
\* call has taken out of the table yet
Scheduled == { t \in Tasks : fstate[t] # "NONE" /\
                   (handle_of[t] = None \/ removals[handle_of[t]] = 0) }

\* _wait_all cancels, waits for and replays the futures it finds in the
\* table when it takes the lock: on that step every scheduled task is found
SnapshotHasAll ==
    \A c \in Callers : (pc[c] = "idle" /\ pc'[c] = "cancel") =>
        \A t \in Scheduled : \E i \in 1 .. Len(loc'[c].items) : loc'[c].items[i].f = t

\* _close has returned: the table is empty, every scheduled task is done and
\* no queue of the journal is left
ClosedClean ==
    \A c \in Callers :
        (pc[c] = "done" /\ outcome[c].op = "close" /\ outcome[c].kind = "return") =>
            /\ futures = << >>
            /\ \A t \in Tasks : fstate[t] # "NONE" =>
                  (fstate[t] \in {"FINISHED", "CANCELLED"} /\ Buffered(t) = << >>)

\* C29: when async_run runs on one thread while _close (or _wait_all) runs
\* on another, every task scheduled before _wait_all looked at the table is
\* among the futures it cancels or waits for and replays; when _close has
\* returned the table is empty and no queue holds calls that were not
\* replayed.
PropC29Stated ==
    /\ [][SnapshotHasAll]_vars
    /\ []ClosedClean

====
